---- MODULE Spec2Model ----
(***************************************************************************)
(* Verification development for the GSTR-1 reconciliation service:         *)
(*   camate-fastapi/routers/verification.py  (run_verification)            *)
(*   camate-fastapi/storage.py               (local byte storage)          *)
(*   camate-fastapi/gstr1_engine.py          (CSV -> workbook assembler)   *)
(*                                                                         *)
(* Conventions.                                                            *)
(*  - A Python str is a sequence of one-character strings.                 *)
(*  - A worksheet is a sequence of rows, row r of the sheet at index r     *)
(*    (row 1 is the header row); a row is a sequence of cells.  Column     *)
(*    indices are 1-based as in openpyxl; 0 stands for Python's None where *)
(*    the code holds "no such column".                                     *)
(*  - Amounts are integers (the code's floats in a fixed unit).            *)
(***************************************************************************)
EXTENDS Integers, Sequences, FiniteSets, TLC

VARIABLES
    \* ---- one verification run over one in-memory workbook ----
    pc,                  \* position of run_verification
    wb,                  \* the workbook: sheet name -> grid of cells
    sheetnames,          \* wb.sheetnames
    errors,              \* list of error dicts
    b2cs_additions,      \* insertion-ordered dict (pos, rate) -> amounts
    hsn_b2b_deductions,  \* insertion-ordered dict rate -> amount to shift
    total_checked,
    total_moved,
    error_csv,           \* the composed report, one string
    wb0,                 \* history: the workbook as loaded
    hsn_pre,             \* history: the hsn sheet when Step B starts
    b2cs_pre,            \* history: the b2cs sheet when the additions are written
    dash_data,           \* prefix -> totals, in two-hundredths
    implicit_taxes_by_pos,   \* entries [pos, tax] in insertion order
    implicit_cats_by_pos,    \* entries [pos, cats] in insertion order
    best_state,          \* None, or the place taken as the home state
    \* ---- verification runs against the byte storage ----
    req,                 \* run -> its VerificationRequest
    run,                 \* run -> position, read attempts, error, output keys
    disk,                \* local storage: output key -> file
    src_on_disk,         \* whether the source document is in local storage
    clock,               \* int(time.time())
    \* ---- generate_gstr1_excel over a list of CSV files ----
    csv_files,           \* the files handed to generate_gstr1_excel
    file_idx,            \* the loop's position in csv_files
    gen_pc,              \* "loop", "saved", "raised"; "projected", "json_raised"
    sheets_processed,
    gen_wb,              \* the workbook being filled: sheet name -> grid of cells
    gen_wb0,             \* history: the workbook the call started from
    gstr1_json           \* what generate_gstr1_json made of the workbook

dashVars == <<dash_data, implicit_taxes_by_pos, implicit_cats_by_pos, best_state>>
runVars == <<pc, wb, sheetnames, errors, b2cs_additions, hsn_b2b_deductions,
             total_checked, total_moved, error_csv, wb0, hsn_pre, b2cs_pre, dashVars>>
storeVars == <<req, run, disk, src_on_disk, clock>>
genVars == <<csv_files, file_idx, gen_pc, sheets_processed, gen_wb, gen_wb0, gstr1_json>>
vars == <<runVars, storeVars, genVars>>

(***************************************************************************)
(* Text                                                                    *)
(***************************************************************************)
Lower == <<"a","b","c","d","e","f","g","h","i","j","k","l","m",
           "n","o","p","q","r","s","t","u","v","w","x","y","z">>
Upper == <<"A","B","C","D","E","F","G","H","I","J","K","L","M",
           "N","O","P","Q","R","S","T","U","V","W","X","Y","Z">>
Digit == {"0","1","2","3","4","5","6","7","8","9"}
UpperLetter == {Upper[i] : i \in 1..26}
Whitespace == {" ", "\t", "\n", "\r"}

LowerLetter == {Lower[i] : i \in 1..26}
UpperOf == [c \in LowerLetter |-> Upper[CHOOSE i \in 1..26 : Lower[i] = c]]

\* str.upper(), one character
upper_char(c) == IF c \in LowerLetter THEN UpperOf[c] ELSE c

\* str.upper()
str_upper(s) == [i \in 1..Len(s) |-> upper_char(s[i])]

RECURSIVE lstrip(_)
lstrip(s) == IF s # <<>> /\ Head(s) \in Whitespace THEN lstrip(Tail(s)) ELSE s

RECURSIVE rstrip(_)
rstrip(s) ==
    IF s # <<>> /\ s[Len(s)] \in Whitespace
    THEN rstrip(SubSeq(s, 1, Len(s) - 1))
    ELSE s

\* str.strip()
str_strip(s) == rstrip(lstrip(s))

\* Python's  t in s  for two strings
str_in(t, s) ==
    \E i \in 1..(Len(s) - Len(t) + 1) : SubSeq(s, i, i + Len(t) - 1) = t

\* str.replace(c, '') for a one-character c
RECURSIVE str_remove(_, _)
str_remove(s, c) ==
    IF s = <<>> THEN <<>>
    ELSE IF Head(s) = c THEN str_remove(Tail(s), c)
    ELSE <<Head(s)>> \o str_remove(Tail(s), c)

(***************************************************************************)
(* Cells                                                                   *)
(***************************************************************************)
None == [k |-> "none", n |-> 0, s |-> <<>>]
Num(n) == [k |-> "num", n |-> n, s |-> <<>>]
Txt(s) == [k |-> "str", n |-> 0, s |-> s]
\* a Python float: the whole part, and the decimals that are not trailing zeros
Float(n, decimals) == [k |-> "float", n |-> n, s |-> decimals]

\* Python truthiness of a cell value: None, 0 and '' are false
truthy(v) ==
    \/ v.k = "num" /\ v.n # 0
    \/ v.k = "str" /\ v.s # <<>>
    \/ v.k = "float" /\ (v.n # 0 \/ v.s # <<>>)
    \/ v.k = "list" /\ v.n # 0

DigitChar(d) ==
    CASE d = 0 -> "0" [] d = 1 -> "1" [] d = 2 -> "2" [] d = 3 -> "3"
      [] d = 4 -> "4" [] d = 5 -> "5" [] d = 6 -> "6" [] d = 7 -> "7"
      [] d = 8 -> "8" [] OTHER -> "9"

RECURSIVE nat_str(_)
nat_str(n) ==
    IF n < 10 THEN <<DigitChar(n)>>
    ELSE nat_str(n \div 10) \o <<DigitChar(n % 10)>>

\* str(n) of a Python int
int_str(n) == IF n < 0 THEN <<"-">> \o nat_str(0 - n) ELSE nat_str(n)

\* str(x) of a Python float holding a whole number: '500.0'
float_str(n) == int_str(n) \o <<".", "0">>

\* str(value) of a cell value (a numeric cell of a loaded sheet holds an int)
str(v) ==
    CASE v.k = "str" -> v.s
      [] v.k = "num" -> int_str(v.n)
      [] v.k = "float" -> int_str(v.n) \o <<".">> \o (IF v.s = <<>> THEN <<"0">> ELSE v.s)
      [] OTHER -> <<"N","o","n","e">>

DigitValue(c) ==
    CASE c = "0" -> 0 [] c = "1" -> 1 [] c = "2" -> 2 [] c = "3" -> 3
      [] c = "4" -> 4 [] c = "5" -> 5 [] c = "6" -> 6 [] c = "7" -> 7
      [] c = "8" -> 8 [] OTHER -> 9

RECURSIVE digits_value(_, _)
digits_value(s, acc) ==
    IF s = <<>> THEN acc
    ELSE digits_value(Tail(s), 10 * acc + DigitValue(Head(s)))

\* float(text) over the texts the model draws: an optionally signed run of
\* digits parses, anything else raises ValueError (reported as "error")
float_of(s) ==
    LET body == IF s # <<>> /\ Head(s) \in {"-", "+"} THEN Tail(s) ELSE s
    IN  IF body # <<>> /\ \A i \in 1..Len(body) : body[i] \in Digit
        THEN [ok |-> TRUE,
              v |-> IF Head(s) = "-" THEN 0 - digits_value(body, 0)
                    ELSE digits_value(body, 0)]
        ELSE [ok |-> FALSE, v |-> 0]

clean_val(v) ==
    CASE v.k = "none" -> 0
      [] v.k = "num" -> v.n
      [] OTHER ->
           LET f == float_of(str_strip(str_remove(str(v), ",")))
           IN  IF f.ok THEN f.v ELSE 0

(***************************************************************************)
(* Worksheets (openpyxl)                                                   *)
(***************************************************************************)
Max(S) == CHOOSE x \in S : \A y \in S : y <= x
Min(S) == CHOOSE x \in S : \A y \in S : x <= y

max_row(ws) == IF Len(ws) = 0 THEN 1 ELSE Len(ws)
max_column(ws) == Max({1} \cup {Len(ws[r]) : r \in 1..Len(ws)})

cell(ws, r, c) ==
    IF r >= 1 /\ r <= Len(ws) /\ c >= 1 /\ c <= Len(ws[r]) THEN ws[r][c] ELSE None

\* ws[r] / one row of iter_rows: the cells of row r over every column
row_cells(ws, r) == [c \in 1..max_column(ws) |-> cell(ws, r, c)]

\* ws.cell(row=r, column=c, value=v)
set_cell(ws, r, c, v) ==
    [i \in 1..Max({Len(ws), r}) |->
        IF i = r
        THEN [j \in 1..Max({c, IF i <= Len(ws) THEN Len(ws[i]) ELSE 0}) |->
                 IF j = c THEN v ELSE cell(ws, i, j)]
        ELSE IF i <= Len(ws) THEN ws[i] ELSE <<>>]

\* ws.delete_rows(idx, 1)
delete_rows(ws, idx) ==
    IF idx < 1 \/ idx > Len(ws) THEN ws
    ELSE SubSeq(ws, 1, idx - 1) \o SubSeq(ws, idx + 1, Len(ws))

\* [str(cell.value).strip() if cell.value else '' for cell in ws[1]]
header_texts(ws) ==
    [c \in 1..max_column(ws) |->
        IF truthy(cell(ws, 1, c)) THEN str_strip(str(cell(ws, 1, c))) ELSE <<>>]

\* next((i for i, h in enumerate(headers) if P(h)), default); hits are the
\* columns that satisfy the test, given by the caller
first_of(hits, default) == IF hits = {} THEN default ELSE Min(hits)

\* the columns whose upper-cased header contains the token
cols_with(headers, token) ==
    {i \in 1..Len(headers) : str_in(token, str_upper(headers[i]))}

(***************************************************************************)
(* Literals of verification.py                                             *)
(***************************************************************************)
\* the header tokens the column searches look for
Tok ==
    [GSTIN |-> <<"G","S","T","I","N">>,
     NAME |-> <<"N","A","M","E">>,
     RECEIVER |-> <<"R","E","C","E","I","V","E","R">>,
     TAXABLE_VALUE |-> <<"T","A","X","A","B","L","E"," ","V","A","L","U","E">>,
     TAXABLE |-> <<"T","A","X","A","B","L","E">>,
     TOTAL |-> <<"T","O","T","A","L">>,
     RATE |-> <<"R","A","T","E">>,
     GSTPCT |-> <<"G","S","T","%">>,
     PLACE_OF_SUPPLY |-> <<"P","L","A","C","E"," ","O","F"," ","S","U","P","P","L","Y">>,
     CESS |-> <<"C","E","S","S">>,
     TYPE |-> <<"T","Y","P","E">>,
     HSN |-> <<"H","S","N">>]

\* the sheet headers of the workbook (the Excel side of STANDARD_MAPPINGS)
Hdr ==
    [GSTIN_UIN |-> <<"G","S","T","I","N","/","U","I","N">>,
     Receiver_Name |-> <<"R","e","c","e","i","v","e","r"," ","N","a","m","e">>,
     Taxable_Value |-> <<"T","a","x","a","b","l","e"," ","V","a","l","u","e">>,
     GSTPCT |-> <<"G","S","T","%">>,
     Place_Of_Supply |-> <<"P","l","a","c","e"," ","O","f"," ","S","u","p","p","l","y">>,
     CESS |-> <<"C","E","S","S">>,
     Type |-> <<"T","y","p","e">>,
     Rate |-> <<"R","a","t","e">>,
     Cess_Amount |-> <<"C","e","s","s"," ","A","m","o","u","n","t">>,
     ECommerce_GSTIN |-> <<"E","-","C","o","m","m","e","r","c","e"," ","G","S","T","I","N">>,
     HSN |-> <<"H","S","N">>,
     Total_Value |-> <<"T","o","t","a","l"," ","V","a","l","u","e">>,
     Total_Taxable_Value |-> <<"T","o","t","a","l"," ","T","a","x","a","b","l","e"," ","V","a","l","u","e">>,
     CGST |-> <<"C","G","S","T">>]

\* the string constants run_verification writes
Lit ==
    [OE |-> <<"O","E">>,
     B2B |-> <<"B","2","B">>,
     B2C |-> <<"B","2","C">>,
     Unknown |-> <<"U","n","k","n","o","w","n">>,
     Unknown_POS |-> <<"U","n","k","n","o","w","n"," ","P","O","S">>,
     GSTIN |-> <<"G","S","T","I","N">>,
     Party_Name |-> <<"P","a","r","t","y"," ","N","a","m","e">>,
     Error_Type |-> <<"E","r","r","o","r"," ","T","y","p","e">>,
     Taxable_Value |-> <<"T","a","x","a","b","l","e"," ","V","a","l","u","e">>,
     Rate |-> <<"R","a","t","e">>,
     Action |-> <<"A","c","t","i","o","n">>,
     Invalid_GSTIN |-> <<"I","n","v","a","l","i","d","/","U","n","r","e","g","i","s","t","e","r","e","d"," ","G","S","T","I","N">>,
     Moved_to_B2C |-> <<"M","o","v","e","d"," ","t","o"," ","B","2","C">>]

(***************************************************************************)
(* GSTIN grammar                                                           *)
(***************************************************************************)
\* a regular expression that is a run of character classes anchored by ^ and $
\* (Python's $ also matches just before one trailing newline)
regex_match(classes, s) ==
    /\ \/ Len(s) = Len(classes)
       \/ Len(s) = Len(classes) + 1 /\ s[Len(s)] = "\n"
    /\ \A i \in 1..Len(classes) : s[i] \in classes[i]

\* the same expression with [0-9A-Z] in the entity position
GSTIN_REGEX_zero_entity ==
    [i \in 1..15 |->
        CASE i \in {1, 2} \cup (8..11) -> Digit
          [] i \in (3..7) \cup {12} -> UpperLetter
          [] i = 14 -> {"Z"}
          [] OTHER -> Digit \cup UpperLetter]

\* ^[0-9]{2}[A-Z]{5}[0-9]{4}[A-Z]{1}[1-9A-Z]{1}Z[0-9A-Z]{1}$
GSTIN_REGEX ==
    [i \in 1..15 |->
        CASE i \in {1, 2} \cup (8..11) -> Digit
          [] i \in (3..7) \cup {12} -> UpperLetter
          [] i = 13 -> (Digit \ {"0"}) \cup UpperLetter
          [] i = 14 -> {"Z"}
          [] OTHER -> Digit \cup UpperLetter]

\* gstin = str(gstin_val).strip().upper()
gstin_text(gstin_val) == str_upper(str_strip(str(gstin_val)))

\* a validator that accepts every identifier
is_valid_always(gstin) == TRUE

\* is_valid = bool(GSTIN_REGEX.match(gstin))
is_valid(gstin) == regex_match(GSTIN_REGEX, gstin)

(***************************************************************************)
(* Module 1: B2B verification                                              *)
(***************************************************************************)
\* the column searches over the b2b header row; 0 is None
b2b_columns(headers) ==
    LET gstin_col == first_of(cols_with(headers, Tok.GSTIN), 0)
    IN  [gstin |-> gstin_col,
         party |-> first_of(cols_with(headers, Tok.NAME)
                            \cup cols_with(headers, Tok.RECEIVER), gstin_col),
         tax |-> first_of(cols_with(headers, Tok.TAXABLE_VALUE), 0),
         rate |-> first_of(cols_with(headers, Tok.RATE)
                           \cup cols_with(headers, Tok.GSTPCT), 0),
         pos |-> first_of(cols_with(headers, Tok.PLACE_OF_SUPPLY), 0),
         cess |-> first_of(cols_with(headers, Tok.CESS), 0)]

\* additions that open a new bucket for every row
additions_append(d, pos, rate, tax_val, cess) ==
    Append(d, [pos |-> pos, rate |-> rate, tax |-> tax_val, cess |-> cess])

\* b2cs_additions[(pos, rate)]['Taxable Value'] += tax_val; ...['Cess'] += cess
\* on a defaultdict that keeps insertion order
additions_add(d, pos, rate, tax_val, cess) ==
    IF \E i \in 1..Len(d) : d[i].pos = pos /\ d[i].rate = rate
    THEN [i \in 1..Len(d) |->
            IF d[i].pos = pos /\ d[i].rate = rate
            THEN [d[i] EXCEPT !.tax = @ + tax_val, !.cess = @ + cess]
            ELSE d[i]]
    ELSE Append(d, [pos |-> pos, rate |-> rate, tax |-> tax_val, cess |-> cess])

\* hsn_b2b_deductions[rate] += tax_val
deductions_add(d, rate, tax_val) ==
    IF \E i \in 1..Len(d) : d[i].rate = rate
    THEN [i \in 1..Len(d) |->
            IF d[i].rate = rate THEN [d[i] EXCEPT !.amt = @ + tax_val] ELSE d[i]]
    ELSE Append(d, [rate |-> rate, amt |-> tax_val])

\* the body of the row loop for one row with a non-blank, invalid identifier
reclassify_row(ws, cols, r, gstin, acc) ==
    LET party_name == IF cols.party # 0 THEN str(cell(ws, r, cols.party))
                      ELSE Lit.Unknown
        tax_val == clean_val(cell(ws, r, cols.tax))
        rate == clean_val(cell(ws, r, cols.rate))
        pos == IF cols.pos # 0 THEN str(cell(ws, r, cols.pos)) ELSE Lit.Unknown_POS
        cess == IF cols.cess # 0 THEN clean_val(cell(ws, r, cols.cess)) ELSE 0
    IN  [acc EXCEPT
            !.total_checked = @ + 1,
            !.total_moved = @ + 1,
            !.errors = Append(@, [GSTIN |-> gstin,
                                  Party_Name |-> party_name,
                                  Error_Type |-> Lit.Invalid_GSTIN,
                                  Taxable_Value |-> tax_val,
                                  Rate |-> rate,
                                  Action |-> Lit.Moved_to_B2C]),
            !.b2cs_additions = additions_add(@, pos, rate, tax_val, cess),
            !.hsn_b2b_deductions = deductions_add(@, rate, tax_val),
            !.rows_to_delete = Append(@, r)]

\* for row_idx, row in enumerate(b2b_sheet.iter_rows(min_row=2), start=2)
RECURSIVE scan_b2b(_, _, _, _)
scan_b2b(ws, cols, r, acc) ==
    IF r > Len(ws) THEN acc
    ELSE LET gstin_val == cell(ws, r, cols.gstin)
         IN  IF ~truthy(gstin_val) THEN scan_b2b(ws, cols, r + 1, acc)
             ELSE IF is_valid(gstin_text(gstin_val))
             THEN scan_b2b(ws, cols, r + 1, [acc EXCEPT !.total_checked = @ + 1])
             ELSE scan_b2b(ws, cols, r + 1,
                           reclassify_row(ws, cols, r, gstin_text(gstin_val), acc))

RECURSIVE sorted_reverse(_)
sorted_reverse(S) ==
    IF S = {} THEN <<>> ELSE <<Max(S)>> \o sorted_reverse(S \ {Max(S)})

\* deleting in the order the rows were collected (ascending)
delete_order_ascending(rows_to_delete) == rows_to_delete

\* sorted(rows_to_delete, reverse=True)
delete_order(rows_to_delete) ==
    sorted_reverse({rows_to_delete[i] : i \in 1..Len(rows_to_delete)})

RECURSIVE delete_each(_, _)
delete_each(ws, order) ==
    IF order = <<>> THEN ws
    ELSE delete_each(delete_rows(ws, Head(order)), Tail(order))

EmptyAcc ==
    [errors |-> <<>>, b2cs_additions |-> <<>>, hsn_b2b_deductions |-> <<>>,
     rows_to_delete |-> <<>>, total_checked |-> 0, total_moved |-> 0]

\* what Module 1 collects from the b2b sheet (nothing without the three columns)
module1_scan(ws) ==
    LET cols == b2b_columns(header_texts(ws))
    IN  IF cols.gstin # 0 /\ cols.tax # 0 /\ cols.rate # 0
        THEN scan_b2b(ws, cols, 2, EmptyAcc)
        ELSE EmptyAcc

(***************************************************************************)
(* Writing the additions into the b2cs sheet                               *)
(***************************************************************************)
\* ['Type', 'Place Of Supply', 'Rate', 'Taxable Value', 'Cess Amount',
\*  'E-Commerce GSTIN']
default_b2cs_headers ==
    <<Hdr.Type, Hdr.Place_Of_Supply, Hdr.Rate, Hdr.Taxable_Value,
      Hdr.Cess_Amount, Hdr.ECommerce_GSTIN>>

\* not b2cs_headers or not any(b2cs_headers)
headers_blank(headers) == \A i \in 1..Len(headers) : headers[i] = <<>>

RECURSIVE write_headers(_, _, _)
write_headers(ws, headers, c) ==
    IF c > Len(headers) THEN ws
    ELSE write_headers(set_cell(ws, 1, c, Txt(headers[c])), headers, c + 1)

\* b2cs_headers after the header check
b2cs_headers_of(ws) ==
    IF headers_blank(header_texts(ws)) THEN default_b2cs_headers
    ELSE header_texts(ws)

\* the five column searches over the b2cs header row
b2cs_columns(headers) ==
    [type |-> first_of({i \in 1..Len(headers) : headers[i] = Hdr.Type}, 1),
     pos |-> first_of({i \in 1..Len(headers) : headers[i] = Hdr.Place_Of_Supply}, 2),
     rate |-> first_of(cols_with(headers, Tok.RATE)
                       \cup cols_with(headers, Tok.GSTPCT), 3),
     tax |-> first_of(cols_with(headers, Tok.TAXABLE_VALUE), 4),
     cess |-> first_of(cols_with(headers, Tok.CESS), 5)]

\* the five cell writes of one bucket, in the code's order
write_bucket(ws, cols, row, b) ==
    set_cell(
      set_cell(
        set_cell(
          set_cell(
            set_cell(ws, row, cols.type, Txt(Lit.OE)),
            row, cols.pos, Txt(b.pos)),
          row, cols.rate, Num(b.rate)),
        row, cols.tax, Num(b.tax)),
      row, cols.cess, Num(b.cess))

\* for (pos, rate), amounts in b2cs_additions.items(): ...; start_row += 1
RECURSIVE write_buckets(_, _, _, _)
write_buckets(ws, cols, start_row, additions) ==
    IF additions = <<>> THEN ws
    ELSE write_buckets(write_bucket(ws, cols, start_row, Head(additions)),
                       cols, start_row + 1, Tail(additions))

\* the whole  if b2cs_additions:  block
write_b2cs(ws, additions) ==
    IF additions = <<>> THEN ws
    ELSE LET headed == IF headers_blank(header_texts(ws))
                       THEN write_headers(ws, default_b2cs_headers, 1)
                       ELSE ws
         IN  write_buckets(headed, b2cs_columns(b2cs_headers_of(ws)),
                           max_row(headed) + 1, additions)

(***************************************************************************)
(* Module 2, step A: classification-code correction                        *)
(***************************************************************************)
\* the keys of STANDARD_HSN_MASTER, in the dict's order
STANDARD_HSN_MASTER ==
    << <<"1","0","0","1">>, <<"1","0","0","2">>,
       <<"9","9","8","4","1","2">>, <<"9","9","8","5","9","9">>,
       <<"8","4","7","1","3","0">>, <<"8","5","1","7","1","2">>,
       <<"9","9","8","3","1","1">>, <<"9","9","8","3","1","2">>,
       <<"9","9","8","3">>, <<"8","4","7","1">>, <<"9","9">> >>

\* difflib.SequenceMatcher.find_longest_match over a[alo..ahi], b[blo..bhi]
\* (inclusive, 1-based): the longest block, the earliest in a, then in b
matching_blocks_in(a, b, alo, ahi, blo, bhi) ==
    {t \in (alo..ahi) \X (blo..bhi) \X (1..(ahi - alo + 1)) :
        /\ t[1] + t[3] - 1 <= ahi
        /\ t[2] + t[3] - 1 <= bhi
        /\ SubSeq(a, t[1], t[1] + t[3] - 1) = SubSeq(b, t[2], t[2] + t[3] - 1)}

\* the number of matched characters M of get_matching_blocks
RECURSIVE matched_chars(_, _, _, _, _, _)
matched_chars(a, b, alo, ahi, blo, bhi) ==
    IF alo > ahi \/ blo > bhi THEN 0
    ELSE LET blocks == matching_blocks_in(a, b, alo, ahi, blo, bhi)
         IN  IF blocks = {} THEN 0
             ELSE LET k == Max({t[3] : t \in blocks})
                      i == Min({t[1] : t \in {u \in blocks : u[3] = k}})
                      j == Min({t[2] : t \in {u \in blocks : u[3] = k /\ u[1] = i}})
                  IN  k + matched_chars(a, b, alo, i - 1, blo, j - 1)
                        + matched_chars(a, b, i + k, ahi, j + k, bhi)

\* SequenceMatcher(a, b).ratio() = 2.0 * M / T, kept as the pair <<2M, T>>
ratio(a, b) == <<2 * matched_chars(a, b, 1, Len(a), 1, Len(b)), Len(a) + Len(b)>>

\* ratio >= 0.5
ratio_ge_half(r) == r[2] > 0 /\ 10 * r[1] >= 5 * r[2]

\* ratio >= 0.6
ratio_ge_cutoff(r) == r[2] > 0 /\ 10 * r[1] >= 6 * r[2]

\* a < b for two strings of digits (code-point order)
RECURSIVE str_less(_, _)
str_less(a, b) ==
    IF b = <<>> THEN FALSE
    ELSE IF a = <<>> THEN TRUE
    ELSE IF Head(a) # Head(b) THEN DigitValue(Head(a)) < DigitValue(Head(b))
    ELSE str_less(Tail(a), Tail(b))

\* (score1, x1) < (score2, x2) as Python compares the tuples
scored_less(x1, x2, word) ==
    LET r1 == ratio(x1, word)
        r2 == ratio(x2, word)
    IN  \/ r1[1] * r2[2] < r2[1] * r1[2]
        \/ r1[1] * r2[2] = r2[1] * r1[2] /\ str_less(x1, x2)

\* difflib.get_close_matches(word, STANDARD_HSN_MASTER.keys(), n=1, cutoff=0.6):
\* the empty sequence or the one best key
get_close_matches(word) ==
    LET keys == {STANDARD_HSN_MASTER[i] : i \in 1..Len(STANDARD_HSN_MASTER)}
        close == {x \in keys : ratio_ge_cutoff(ratio(x, word))}
    IN  IF close = {} THEN <<>>
        ELSE <<CHOOSE x \in close : \A y \in close \ {x} : scored_less(y, x, word)>>

\* s.split('.')[0]
RECURSIVE before_dot(_)
before_dot(s) ==
    IF s = <<>> \/ Head(s) = "." THEN <<>> ELSE <<Head(s)>> \o before_dot(Tail(s))

\* the body of fuzzy_match_hsn
fuzzy_match(hsn_code) ==
    LET hsn_str == before_dot(str_strip(hsn_code))
    IN  IF \E i \in 1..Len(STANDARD_HSN_MASTER) : STANDARD_HSN_MASTER[i] = hsn_str
        THEN hsn_str
        ELSE IF get_close_matches(hsn_str) # <<>> THEN get_close_matches(hsn_str)[1]
        ELSE hsn_str

\* the codes the input sheets hold, and their corrections computed once
HsnCodes ==
    {<<"1","0","0","1">>, <<"9","9","8","4","1">>, <<"9","9","8","4","1","2">>,
     <<"0","0","0","0","0","0">>}
FuzzyOfCode == [c \in HsnCodes |-> fuzzy_match(c)]

\* fuzzy_match_hsn: a pure function, looked up for the codes computed above
fuzzy_match_hsn(hsn_code) ==
    IF hsn_code \in HsnCodes THEN FuzzyOfCode[hsn_code] ELSE fuzzy_match(hsn_code)

\* the column searches over the hsn header row; 0 is None.  The fallback runs
\* on  not tax_col,  which is also true of the first column (Python index 0).
hsn_columns(headers) ==
    LET strict == first_of({i \in cols_with(headers, Tok.TAXABLE_VALUE) :
                               ~str_in(Tok.TOTAL, str_upper(headers[i]))}, 0)
    IN  [type |-> first_of(cols_with(headers, Tok.TYPE), 0),
         hsn |-> first_of(cols_with(headers, Tok.HSN), 0),
         rate |-> first_of(cols_with(headers, Tok.RATE), 0),
         tax |-> IF strict = 0 \/ strict = 1
                 THEN first_of(cols_with(headers, Tok.TAXABLE), 0)
                 ELSE strict]

\* 1. Fix fuzzy HSN matched codes: the loop over the rows from row 2
RECURSIVE fix_hsn_codes(_, _, _)
fix_hsn_codes(ws, hsn_col, r) ==
    IF r > Len(ws) THEN ws
    ELSE LET h_val == cell(ws, r, hsn_col)
             correct_hsn == fuzzy_match_hsn(str(h_val))
         IN  IF truthy(h_val) /\ correct_hsn # <<>>
                /\ correct_hsn # str_strip(str(h_val))
             THEN fix_hsn_codes(set_cell(ws, r, hsn_col, Txt(correct_hsn)),
                                hsn_col, r + 1)
             ELSE fix_hsn_codes(ws, hsn_col, r + 1)

(***************************************************************************)
(* Module 2, step B: re-apportioning B2B -> B2C taxable value              *)
(***************************************************************************)
\* item_type = str(row[type_col].value).strip().upper() if row[type_col].value else ''
item_type(ws, cols, r) ==
    IF truthy(cell(ws, r, cols.type))
    THEN str_upper(str_strip(str(cell(ws, r, cols.type))))
    ELSE <<>>

\* the rows of the given type at the target rate, in document order
RECURSIVE target_rows(_, _, _, _, _)
target_rows(ws, cols, target_rate, type, r) ==
    IF r > Len(ws) THEN <<>>
    ELSE (IF clean_val(cell(ws, r, cols.rate)) = target_rate
             /\ item_type(ws, cols, r) = type
          THEN <<r>> ELSE <<>>)
         \o target_rows(ws, cols, target_rate, type, r + 1)

\* next((rc for rc in b2c_target_rows if str(rc[hsn]) == str(rb[hsn])), None); 0 is None
matched_b2c(ws, cols, b2c_target_rows, rb) ==
    LET hits == {i \in 1..Len(b2c_target_rows) :
                    str(cell(ws, b2c_target_rows[i], cols.hsn))
                      = str(cell(ws, rb, cols.hsn))}
    IN  IF hits = {} THEN 0 ELSE b2c_target_rows[Min(hits)]

\* copying every cell of the donor row rb to row max_r
RECURSIVE copy_row(_, _, _, _, _)
copy_row(ws, rb, max_r, width, c) ==
    IF c > width THEN ws
    ELSE copy_row(set_cell(ws, max_r, c, cell(ws, rb, c)), rb, max_r, width, c + 1)

\* a cloned row that keeps the donor's taxable value
clone_as_b2c_keeping_tax(ws, cols, rb, width, deduct_amt) ==
    LET max_r == max_row(ws) + 1
    IN  set_cell(copy_row(ws, rb, max_r, width, 1), max_r, cols.type, Txt(Lit.B2C))

\* Add a new B2C row for this HSN
clone_as_b2c(ws, cols, rb, width, deduct_amt) ==
    LET max_r == max_row(ws) + 1
    IN  set_cell(
          set_cell(copy_row(ws, rb, max_r, width, 1), max_r, cols.type, Txt(Lit.B2C)),
          max_r, cols.tax, Num(deduct_amt))

\* deducting the whole remaining amount from the donor
deduct_amount_unbounded(curr_tax, remaining_to_shift) == remaining_to_shift

\* draining every donor whatever the ledger asks for
deduct_amount_whole(curr_tax, remaining_to_shift) == curr_tax

\* deduct_amt = min(curr_tax, remaining_to_shift)
deduct_amount(curr_tax, remaining_to_shift) ==
    IF curr_tax <= remaining_to_shift THEN curr_tax ELSE remaining_to_shift

\* for rb in b2b_target_rows: ... break once nothing remains
RECURSIVE shift_from_donors(_, _, _, _, _, _)
shift_from_donors(ws, cols, donors, b2c_target_rows, width, remaining_to_shift) ==
    IF donors = <<>> THEN ws
    ELSE LET rb == Head(donors)
             curr_tax == clean_val(cell(ws, rb, cols.tax))
             deduct_amt == deduct_amount(curr_tax, remaining_to_shift)
             deducted == set_cell(ws, rb, cols.tax, Num(curr_tax - deduct_amt))
             rc == matched_b2c(deducted, cols, b2c_target_rows, rb)
             added == IF rc # 0
                      THEN set_cell(deducted, rc, cols.tax,
                                    Num(clean_val(cell(deducted, rc, cols.tax))
                                        + deduct_amt))
                      ELSE clone_as_b2c(deducted, cols, rb, width, deduct_amt)
         IN  IF remaining_to_shift - deduct_amt <= 0 THEN added
             ELSE shift_from_donors(added, cols, Tail(donors), b2c_target_rows,
                                    width, remaining_to_shift - deduct_amt)

\* for target_rate, amt_to_shift in hsn_b2b_deductions.items(): ...
RECURSIVE reapportion(_, _, _)
reapportion(ws, cols, deductions) ==
    IF deductions = <<>> THEN ws
    ELSE LET target_rate == Head(deductions).rate
             amt_to_shift == Head(deductions).amt
         IN  IF amt_to_shift <= 0 THEN reapportion(ws, cols, Tail(deductions))
             ELSE reapportion(
                    shift_from_donors(
                        ws, cols,
                        target_rows(ws, cols, target_rate, Lit.B2B, 2),
                        target_rows(ws, cols, target_rate, Lit.B2C, 2),
                        max_column(ws), amt_to_shift),
                    cols, Tail(deductions))

(***************************************************************************)
(* The error report                                                        *)
(***************************************************************************)
RECURSIVE join(_, _)
join(sep, parts) ==
    IF parts = <<>> THEN <<>>
    ELSE IF Len(parts) = 1 THEN parts[1]
    ELSE parts[1] \o sep \o join(sep, Tail(parts))

\* list(errors[0].keys()), also the text of the header-only report
report_headers ==
    <<Lit.GSTIN, Lit.Party_Name, Lit.Error_Type, Lit.Taxable_Value, Lit.Rate, Lit.Action>>

\* str(row[k]) for k in headers
error_fields(e) ==
    <<e.GSTIN, e.Party_Name, e.Error_Type, float_str(e.Taxable_Value),
      float_str(e.Rate), e.Action>>

RECURSIVE error_lines(_)
error_lines(errs) ==
    IF errs = <<>> THEN <<>>
    ELSE join(<<",">>, error_fields(Head(errs))) \o <<"\n">> \o error_lines(Tail(errs))

\* 4. Generate Error Report CSV
compose_error_csv(errs) ==
    IF errs # <<>>
    THEN join(<<",">>, report_headers) \o <<"\n">> \o error_lines(errs)
    ELSE Lit.GSTIN \o <<",">> \o Lit.Party_Name \o <<",">> \o Lit.Error_Type
         \o <<",">> \o Lit.Taxable_Value \o <<",">> \o Lit.Rate \o <<",">>
         \o Lit.Action \o <<"\n">>

(***************************************************************************)
(* Input workbooks                                                         *)
(***************************************************************************)
MaxB2B == 3      \* most data rows of a b2b sheet
MaxHsn == 3      \* most data rows of an hsn sheet

SeqsUpTo(S, n) == UNION {[1..k -> S] : k \in 0..n}

\* a sheet with the given header texts and one row per record, the cells of a
\* record laid out by the field each column holds
sheet_of(layout, header_of, recs) ==
    <<[c \in 1..Len(layout) |-> Txt(header_of[layout[c]])]>>
    \o [i \in 1..Len(recs) |-> [c \in 1..Len(layout) |-> recs[i][layout[c]]]]

\* the texts the sample rows and files are made of
Sample ==
    [GstinValid |-> <<"2","9","A","A","A","A","A","0","0","0","0","A","1","Z","5">>,
     GstinPadded |-> <<" ","2","9","a","a","a","a","a","0","0","0","0","a","1","z","5">>,
     GstinZeroEntity |-> <<"2","9","A","A","A","A","A","0","0","0","0","A","0","Z","5">>,
     GstinShort |-> <<"1","2","3","4">>,
     PosMh27 |-> <<"2","7","-","M","h">>,
     PosMH |-> <<"M","H">>,
     PosKa29 |-> <<"2","9","-","K","a">>,
     PartyPlain |-> <<"A","b">>,
     PartyComma |-> <<"A",",","b">>,
     Hsn1001 |-> <<"1","0","0","1">>,
     Hsn99841 |-> <<"9","9","8","4","1">>,
     Hsn998412 |-> <<"9","9","8","4","1","2">>,
     DocsName |-> <<"d","o","c","s",".","c","s","v">>,
     B2BName |-> <<"b","2","b",".","c","s","v">>,
     OtherName |-> <<"x",".","c","s","v">>,
     HsnName |-> <<"h","s","n","(","b","2","b",")",".","c","s","v">>]

B2BHeader ==
    [gstin |-> Hdr.GSTIN_UIN, party |-> Hdr.Receiver_Name,
     pos |-> Hdr.Place_Of_Supply, rate |-> Hdr.GSTPCT,
     tax |-> Hdr.Taxable_Value, cess |-> Hdr.CESS]

\* the columns a b2b sheet may carry: all six, the three mandatory ones, or
\* no taxable-value column
B2BLayouts ==
    {<<"gstin", "party", "pos", "rate", "tax", "cess">>,
     <<"gstin", "rate", "tax">>,
     <<"gstin", "pos", "rate">>}

B2BRows ==
    {[gstin |-> Txt(Sample.GstinValid), party |-> Txt(Sample.PartyPlain), pos |-> Txt(Sample.PosMh27),
      rate |-> Num(18), tax |-> Num(8), cess |-> Num(0)],
     [gstin |-> Txt(Sample.GstinPadded), party |-> Txt(Sample.PartyPlain), pos |-> Txt(Sample.PosKa29),
      rate |-> Num(5), tax |-> Num(32), cess |-> Num(0)],
     [gstin |-> None, party |-> Txt(Sample.PartyPlain), pos |-> Txt(Sample.PosMh27),
      rate |-> Num(5), tax |-> Num(16), cess |-> Num(0)],
     [gstin |-> Txt(Sample.GstinShort), party |-> Txt(Sample.PartyPlain), pos |-> Txt(Sample.PosMh27),
      rate |-> Num(18), tax |-> Num(1), cess |-> Num(1)],
     [gstin |-> Txt(Sample.GstinShort), party |-> Txt(Sample.PartyComma), pos |-> Txt(Sample.PosMH),
      rate |-> Num(18), tax |-> Num(2), cess |-> Num(0)],
     [gstin |-> Txt(Sample.GstinZeroEntity), party |-> Txt(Sample.PartyPlain), pos |-> Txt(Sample.PosKa29),
      rate |-> Num(5), tax |-> Txt(<<"4">>), cess |-> Num(1)]}

B2BSheets ==
    {<<>>} \cup {sheet_of(l, B2BHeader, recs) :
                    l \in B2BLayouts, recs \in SeqsUpTo(B2BRows, MaxB2B)}

B2csHeader ==
    [type |-> Hdr.Type, pos |-> Hdr.Place_Of_Supply, rate |-> Hdr.GSTPCT,
     tax |-> Hdr.Taxable_Value, cess |-> Hdr.CESS, ecom |-> Hdr.ECommerce_GSTIN]

B2csLayout == <<"type", "pos", "rate", "tax", "cess", "ecom">>

B2csOldRow ==
    [type |-> Txt(Lit.OE), pos |-> Txt(Sample.PosMH), rate |-> Num(18), tax |-> Num(64),
     cess |-> Num(0), ecom |-> None]

\* no b2cs sheet, a template sheet with its header only, a sheet with a row
B2csSheets ==
    {<<>>, sheet_of(B2csLayout, B2csHeader, <<>>),
     sheet_of(B2csLayout, B2csHeader, <<B2csOldRow>>)}

HsnHeader ==
    [type |-> Hdr.Type, hsn |-> Hdr.HSN, total |-> Hdr.Total_Value,
     rate |-> Hdr.Rate, tax |-> Hdr.Total_Taxable_Value, cgst |-> Hdr.CGST]

\* with the Type column and without it
HsnLayouts ==
    {<<"type", "hsn", "total", "rate", "tax", "cgst">>,
     <<"hsn", "rate", "tax">>}

HsnRow(type, code, rate, tax) ==
    [type |-> Txt(type), hsn |-> Txt(code), total |-> Num(tax + 1),
     rate |-> Num(rate), tax |-> Num(tax), cgst |-> Num(1)]

HsnRows ==
    {HsnRow(Lit.B2B, Sample.Hsn1001, 18, 3),
     HsnRow(Lit.B2B, Sample.Hsn99841, 18, 2),
     HsnRow(Lit.B2B, Sample.Hsn1001, 18, 1),
     HsnRow(Lit.B2B, Sample.Hsn1001, 5, 0 - 1),
     HsnRow(Lit.B2C, Sample.Hsn998412, 18, 1),
     HsnRow(Lit.B2C, Sample.Hsn1001, 5, 4)}

HsnSheets ==
    {<<>>} \cup {sheet_of(l, HsnHeader, recs) :
                    l \in HsnLayouts, recs \in SeqsUpTo(HsnRows, MaxHsn)}

\* one hsn sheet, for the runs that vary the b2b sheet
HsnFixed ==
    sheet_of(<<"type", "hsn", "total", "rate", "tax", "cgst">>, HsnHeader,
             <<HsnRow(Lit.B2B, Sample.Hsn99841, 18, 2), HsnRow(Lit.B2C, Sample.Hsn998412, 18, 1)>>)

\* the b2b sheets of the runs that vary the hsn sheet: invalid rows only, which
\* make the shift ledgers {}, {18: 1}, {18: 3}, {18: 4}, {18: 6}, {5: 4},
\* {18: 3, 5: 4} and {5: 0, 18: 1}
LedgerRow(rate, tax) ==
    [gstin |-> Txt(Sample.GstinShort), party |-> Txt(Sample.PartyPlain), pos |-> Txt(Sample.PosMH),
     rate |-> Num(rate), tax |-> Num(tax), cess |-> Num(0)]

LedgerB2BSheets ==
    {sheet_of(<<"gstin", "rate", "tax">>, B2BHeader, recs) :
        recs \in {<<>>,
                  <<LedgerRow(18, 1)>>,
                  <<LedgerRow(18, 3)>>,
                  <<LedgerRow(18, 3), LedgerRow(18, 1)>>,
                  <<LedgerRow(18, 3), LedgerRow(18, 3)>>,
                  <<LedgerRow(5, 4)>>,
                  <<LedgerRow(18, 3), LedgerRow(5, 4)>>,
                  <<LedgerRow(5, 0), LedgerRow(18, 1)>>}}

\* identifiers for the runs that vary one identifier: the valid one with each
\* position replaced by each of a few characters, and some of other lengths
GstinAlphabet == {"0", "7", "A", "Z", "a", " ", "-"}

GstinVariants ==
    {[i \in 1..15 |-> IF i = p THEN c ELSE Sample.GstinValid[i]] :
        p \in 1..15, c \in GstinAlphabet}
    \cup {Sample.GstinPadded, Sample.GstinShort, SubSeq(Sample.GstinValid, 1, 14),
          Sample.GstinValid \o <<"5">>, Sample.GstinValid \o <<"\n">>, <<" ">>}

GstinCells == {None, Num(29)} \cup {Txt(g) : g \in GstinVariants}

GstinSheets ==
    {sheet_of(<<"gstin", "rate", "tax">>, B2BHeader,
              <<[gstin |-> g, party |-> Txt(Sample.PartyPlain), pos |-> Txt(Sample.PosMH),
                 rate |-> Num(18), tax |-> Num(1), cess |-> Num(0)]>>) :
        g \in GstinCells}

(***************************************************************************)
(* run_verification over one workbook, phase by phase                      *)
(***************************************************************************)
SheetNames == {"b2b", "b2cs", "hsn"}

\* the state after  wb = load_workbook(...)  for a workbook given by its
\* sheets, <<>> for a sheet it does not have
LoadedBook(book) ==
    /\ pc = "sheets"
    /\ wb = book
    /\ sheetnames = {n \in DOMAIN book : book[n] # <<>>}
    /\ wb0 = wb
    /\ errors = <<>>
    /\ b2cs_additions = <<>>
    /\ hsn_b2b_deductions = <<>>
    /\ total_checked = 0
    /\ total_moved = 0
    /\ error_csv = <<>>
    /\ hsn_pre = <<>>
    /\ b2cs_pre = <<>>
    /\ dash_data = <<>>
    /\ implicit_taxes_by_pos = <<>>
    /\ implicit_cats_by_pos = <<>>
    /\ best_state = None

\* a workbook of the three sheets the passes work on
Loaded(b2b, b2cs, hsn) ==
    LoadedBook([n \in SheetNames |->
                   CASE n = "b2b" -> b2b [] n = "b2cs" -> b2cs [] OTHER -> hsn])

\* no storage run and no CSV generation in progress
StoreIdle ==
    /\ req = <<>>
    /\ run = <<>>
    /\ disk = <<>>
    /\ src_on_disk = FALSE
    /\ clock = 0

GenIdle ==
    /\ csv_files = <<>>
    /\ file_idx = 0
    /\ gen_pc = "idle"
    /\ sheets_processed = 0
    /\ gen_wb = <<>>
    /\ gen_wb0 = gen_wb
    /\ gstr1_json = <<>>

Init ==
    /\ \E b2b \in B2BSheets, b2cs \in B2csSheets, hsn \in {<<>>, HsnFixed} :
          Loaded(b2b, b2cs, hsn)
    /\ StoreIdle
    /\ GenIdle

InitHsn ==
    /\ \E b2b \in LedgerB2BSheets, hsn \in HsnSheets : Loaded(b2b, <<>>, hsn)
    /\ StoreIdle
    /\ GenIdle

InitGstin ==
    /\ \E b2b \in GstinSheets : Loaded(b2b, <<>>, HsnFixed)
    /\ StoreIdle
    /\ GenIdle

\* lines 106-116: pick the sheets, creating b2cs when the workbook has none
SelectSheets ==
    /\ pc = "sheets"
    /\ pc' = "module1"
    /\ sheetnames' = sheetnames \cup {"b2cs"}
    /\ UNCHANGED <<wb, errors, b2cs_additions, hsn_b2b_deductions, total_checked,
                   total_moved, error_csv, wb0, hsn_pre, b2cs_pre>>
    /\ UNCHANGED <<storeVars, genVars, dashVars>>

\* MODULE 1: B2B VERIFICATION (lines 119-169)
VerifyB2B ==
    /\ pc = "module1"
    /\ pc' = "b2cs"
    /\ \E acc \in {IF "b2b" \in sheetnames THEN module1_scan(wb["b2b"]) ELSE EmptyAcc} :
           /\ errors' = acc.errors
           /\ b2cs_additions' = acc.b2cs_additions
           /\ hsn_b2b_deductions' = acc.hsn_b2b_deductions
           /\ total_checked' = acc.total_checked
           /\ total_moved' = acc.total_moved
           /\ wb' = [wb EXCEPT !["b2b"] =
                        delete_each(@, delete_order(acc.rows_to_delete))]
    /\ UNCHANGED <<sheetnames, error_csv, wb0, hsn_pre, b2cs_pre>>
    /\ UNCHANGED <<storeVars, genVars, dashVars>>

\* the additions written to the b2cl sheet
WriteB2CL ==
    /\ pc = "b2cs"
    /\ pc' = "module2a"
    /\ b2cs_pre' = wb["b2cs"]
    /\ wb' = [wb EXCEPT !["b2cl"] = write_b2cs(@, b2cs_additions)]
    /\ UNCHANGED <<sheetnames, errors, b2cs_additions, hsn_b2b_deductions,
                   total_checked, total_moved, error_csv, wb0, hsn_pre>>
    /\ UNCHANGED <<storeVars, genVars, dashVars>>

\* Move added B2CS entries into the actual B2CS sheet (lines 172-193)
WriteB2CS ==
    /\ pc = "b2cs"
    /\ pc' = "module2a"
    /\ b2cs_pre' = wb["b2cs"]
    /\ wb' = [wb EXCEPT !["b2cs"] = write_b2cs(@, b2cs_additions)]
    /\ UNCHANGED <<sheetnames, errors, b2cs_additions, hsn_b2b_deductions,
                   total_checked, total_moved, error_csv, wb0, hsn_pre>>
    /\ UNCHANGED <<storeVars, genVars, dashVars>>

\* if hsn_sheet and hsn_sheet.max_row > 1  and the three columns are found
hsn_enabled ==
    /\ "hsn" \in sheetnames
    /\ max_row(wb["hsn"]) > 1
    /\ LET cols == hsn_columns(header_texts(wb["hsn"]))
       IN  cols.hsn # 0 /\ cols.tax # 0 /\ cols.rate # 0

\* MODULE 2, step 1 (lines 196-214)
FixHsnCodes ==
    /\ pc = "module2a"
    /\ pc' = "module2b"
    /\ wb' = IF hsn_enabled
             THEN [wb EXCEPT !["hsn"] =
                      fix_hsn_codes(@, hsn_columns(header_texts(@)).hsn, 2)]
             ELSE wb
    /\ UNCHANGED <<sheetnames, errors, b2cs_additions, hsn_b2b_deductions,
                   total_checked, total_moved, error_csv, wb0, hsn_pre, b2cs_pre>>
    /\ UNCHANGED <<storeVars, genVars, dashVars>>

\* MODULE 2, step 2 (lines 216-258)
Reapportion ==
    /\ pc = "module2b"
    /\ pc' = "report"
    /\ hsn_pre' = wb["hsn"]
    /\ wb' = IF /\ hsn_enabled
                /\ hsn_columns(header_texts(wb["hsn"])).type # 0
                /\ hsn_b2b_deductions # <<>>
             THEN [wb EXCEPT !["hsn"] =
                      reapportion(@, hsn_columns(header_texts(@)), hsn_b2b_deductions)]
             ELSE wb
    /\ UNCHANGED <<sheetnames, errors, b2cs_additions, hsn_b2b_deductions,
                   total_checked, total_moved, error_csv, wb0, b2cs_pre>>
    /\ UNCHANGED <<storeVars, genVars, dashVars>>

\* 4. Generate Error Report CSV (lines 260-268)
ComposeReport ==
    /\ pc = "report"
    /\ pc' = "reported"
    /\ error_csv' = compose_error_csv(errors)
    /\ UNCHANGED <<wb, sheetnames, errors, b2cs_additions, hsn_b2b_deductions,
                   total_checked, total_moved, wb0, hsn_pre, b2cs_pre>>
    /\ UNCHANGED <<storeVars, genVars, dashVars>>

\* Normalize "29-Karnataka" to "KARNATAKA":
\* re.sub(r'^\d+[-\s]+', '', str(...)).strip().upper()
leading(s, class) ==
    Max({0} \cup {n \in 1..Len(s) : \A i \in 1..n : s[i] \in class})

normalize_pos(s) ==
    LET d == leading(s, Digit)
        rest == SubSeq(s, d + 1, Len(s))
        g == leading(rest, {"-"} \cup Whitespace)
    IN  str_upper(str_strip(IF d > 0 /\ g > 0
                            THEN SubSeq(rest, g + 1, Len(rest)) ELSE s))

(***************************************************************************)
(* 5. Build Dashboard Summary (lines 270-359)                              *)
(***************************************************************************)
\* the header tokens sum_sheet looks for, and the place of a row without one
DashTok ==
    [TAXABLE |-> <<"T","A","X","A","B","L","E">>, TOTAL_VALUE |-> <<"T","O","T","A","L"," ","V","A","L","U","E">>, IGST |-> <<"I","G","S","T">>,
     INTEGRATED |-> <<"I","N","T","E","G","R","A","T","E","D">>, CGST |-> <<"C","G","S","T">>, CENTRAL |-> <<"C","E","N","T","R","A","L">>,
     SGST |-> <<"S","G","S","T">>, STATE_TAX |-> <<"S","T","A","T","E">>, CESS |-> <<"C","E","S","S">>, RATE |-> <<"R","A","T","E">>,
     GSTPCT |-> <<"G","S","T","%">>, PLACE_OF_SUPPLY |-> <<"P","L","A","C","E"," ","O","F"," ","S","U","P","P","L","Y">>,
     UNKNOWN |-> <<"U","N","K","N","O","W","N">>]

\* amounts of the dashboard are kept in two-hundredths, in which the tax of a
\* row,  tax_v * (rate_v / 100.0),  and its half are whole numbers
in_units(amount) == 200 * amount
row_tax_of(tax_v, rate_v) == 2 * tax_v * rate_v

DashPrefixes == {"b2b", "b2c", "hsn", "cdnr"}

\* dash_data as it is initialised, by prefix and total
dash_zero ==
    [p \in DashPrefixes |-> [taxable |-> 0, igst |-> 0, cgst |-> 0, sgst |-> 0, cess |-> 0]]

\* defaultdict(lambda: {'b2b': 0.0, 'b2c': 0.0, 'cdnr': 0.0})
cats_zero == [b2b |-> 0, b2c |-> 0, cdnr |-> 0]

\* the column searches of sum_sheet
sum_columns(ws) ==
    LET head == header_texts(ws)
        tax_c == first_of(cols_with(head, DashTok.TAXABLE), 0)
    IN  [tax |-> IF tax_c # 0 THEN tax_c
                 ELSE first_of(cols_with(head, DashTok.TOTAL_VALUE), 0),
         i |-> first_of(cols_with(head, DashTok.IGST)
                        \cup cols_with(head, DashTok.INTEGRATED), 0),
         c |-> first_of(cols_with(head, DashTok.CGST)
                        \cup cols_with(head, DashTok.CENTRAL), 0),
         s |-> first_of((cols_with(head, DashTok.SGST) \cup cols_with(head, DashTok.STATE_TAX))
                        \ cols_with(head, DashTok.CESS), 0),
         cess |-> first_of(cols_with(head, DashTok.CESS), 0),
         rate |-> first_of(cols_with(head, DashTok.RATE)
                           \cup cols_with(head, DashTok.GSTPCT), 0),
         pos |-> first_of(cols_with(head, DashTok.PLACE_OF_SUPPLY), 0)]

\* d[key] += amount  on a dictionary kept as a sequence of entries in
\* insertion order, a missing key starting from the default
add_at(entries, pos, amount) ==
    IF \E i \in 1..Len(entries) : entries[i].pos = pos
    THEN [i \in 1..Len(entries) |->
             IF entries[i].pos = pos
             THEN [entries[i] EXCEPT !.tax = @ + amount] ELSE entries[i]]
    ELSE Append(entries, [pos |-> pos, tax |-> amount])

\* implicit_cats_by_pos[pos][prefix] += amount; the entry of a new place is
\* made before the prefix is looked up in it
add_cat(entries, pos, prefix, amount) ==
    LET with_pos == IF \E i \in 1..Len(entries) : entries[i].pos = pos THEN entries
                    ELSE Append(entries, [pos |-> pos, cats |-> cats_zero])
    IN  [i \in 1..Len(with_pos) |->
            IF with_pos[i].pos = pos /\ prefix \in DOMAIN cats_zero
            THEN [with_pos[i] EXCEPT !.cats[prefix] = @ + amount] ELSE with_pos[i]]

\* the body of the row loop of sum_sheet for row r; KeyError when a sheet
\* without tax columns is summed under a prefix the categories do not have
sum_row(acc, ws, cols, prefix, r) ==
    LET tax_v == IF cols.tax # 0 THEN clean_val(cell(ws, r, cols.tax)) ELSE 0
        cess_v == IF cols.cess # 0 THEN clean_val(cell(ws, r, cols.cess)) ELSE 0
        summed == [acc.dash EXCEPT ![prefix].taxable = @ + in_units(tax_v),
                                   ![prefix].cess = @ + in_units(cess_v)]
        rate_v == IF cols.rate # 0 THEN clean_val(cell(ws, r, cols.rate)) ELSE 0
        pos_str == IF cols.pos # 0 /\ truthy(cell(ws, r, cols.pos))
                   THEN normalize_pos(str(cell(ws, r, cols.pos)))
                   ELSE DashTok.UNKNOWN
    IN  IF cols.c # 0 \/ cols.i # 0
        THEN [acc EXCEPT !.dash =
                 [summed EXCEPT
                     ![prefix].igst = @ + (IF cols.i # 0
                                           THEN in_units(clean_val(cell(ws, r, cols.i))) ELSE 0),
                     ![prefix].cgst = @ + (IF cols.c # 0
                                           THEN in_units(clean_val(cell(ws, r, cols.c))) ELSE 0),
                     ![prefix].sgst = @ + (IF cols.s # 0
                                           THEN in_units(clean_val(cell(ws, r, cols.s))) ELSE 0)]]
        ELSE [dash |-> summed,
              taxes |-> add_at(acc.taxes, pos_str, row_tax_of(tax_v, rate_v)),
              cats |-> add_cat(acc.cats, pos_str, prefix, row_tax_of(tax_v, rate_v)),
              raised |-> prefix \notin DOMAIN cats_zero]

\* for row in ws.iter_rows(min_row=2, values_only=True)
RECURSIVE sum_rows(_, _, _, _, _)
sum_rows(acc, ws, cols, prefix, r) ==
    IF r > Len(ws) \/ acc.raised THEN acc
    ELSE sum_rows(sum_row(acc, ws, cols, prefix, r), ws, cols, prefix, r + 1)

\* sum_sheet(s_name, prefix) over the sheets  names  of the workbook
sum_sheet(acc, book, names, s_name, prefix) ==
    IF acc.raised \/ s_name \notin names THEN acc
    ELSE IF max_row(book[s_name]) <= 1 THEN acc
    ELSE sum_rows(acc, book[s_name], sum_columns(book[s_name]), prefix, 2)

\* the six calls of sum_sheet
summed_sheets(book, names) ==
    sum_sheet(sum_sheet(sum_sheet(sum_sheet(sum_sheet(sum_sheet(
        [dash |-> dash_zero, taxes |-> <<>>, cats |-> <<>>, raised |-> FALSE],
        book, names, "b2b", "b2b"),
        book, names, "b2cs", "b2c"),
        book, names, "b2cl", "b2c"),
        book, names, "hsn", "hsn"),
        book, names, "cdnr", "cdnr"),
        book, names, "cdnur", "cdnr")

\* abs(x)
abs(x) == IF x < 0 THEN 0 - x ELSE x

\* a choice that takes the first place whatever the totals are
first_state(taxes, hsn_cgst, k, best, min_diff) ==
    IF taxes = <<>> THEN None ELSE Txt(taxes[1].pos)

\* the loop over implicit_taxes_by_pos.items() from entry k on: best_state,
\* None while min_diff is float('inf')
RECURSIVE best_state_of(_, _, _, _, _)
best_state_of(taxes, hsn_cgst, k, best, min_diff) ==
    IF k > Len(taxes) THEN best
    ELSE LET diff == abs(taxes[k].tax \div 2 - hsn_cgst)
         IN  IF best = None \/ diff < min_diff
             THEN best_state_of(taxes, hsn_cgst, k + 1, Txt(taxes[k].pos), diff)
             ELSE best_state_of(taxes, hsn_cgst, k + 1, best, min_diff)

\* the gross tax of a prefix over the entries S of implicit_cats_by_pos
RECURSIVE gross_tax(_, _, _)
gross_tax(cats, p, S) ==
    IF S = {} THEN 0
    ELSE cats[Min(S)].cats[p] + gross_tax(cats, p, S \ {Min(S)})

\* an apportionment that treats every place as another state
apportioned_as_cross(dash, cats, best) ==
    [p \in DashPrefixes |->
        IF p \notin DOMAIN cats_zero THEN dash[p]
        ELSE [dash[p] EXCEPT !.igst = @ + gross_tax(cats, p, 1..Len(cats))]]

\* an apportionment that leaves out the places other than the home state
apportioned_without_cross(dash, cats, best) ==
    [p \in DashPrefixes |->
        IF p \notin DOMAIN cats_zero THEN dash[p]
        ELSE LET home == {i \in 1..Len(cats) : Txt(cats[i].pos) = best}
             IN  [dash[p] EXCEPT !.cgst = @ + gross_tax(cats, p, home) \div 2,
                                 !.sgst = @ + gross_tax(cats, p, home) \div 2]]

\* 2. Assign Implicit tax proportions
apportioned(dash, cats, best) ==
    [p \in DashPrefixes |->
        IF p \notin DOMAIN cats_zero THEN dash[p]
        ELSE LET home == {i \in 1..Len(cats) : Txt(cats[i].pos) = best}
                 away == (1..Len(cats)) \ home
             IN  [dash[p] EXCEPT !.cgst = @ + gross_tax(cats, p, home) \div 2,
                                 !.sgst = @ + gross_tax(cats, p, home) \div 2,
                                 !.igst = @ + gross_tax(cats, p, away)]]

\* Total Tax = IGST + CGST + SGST
with_total_tax(dash) ==
    [p \in DashPrefixes |->
        [taxable |-> dash[p].taxable, igst |-> dash[p].igst, cgst |-> dash[p].cgst,
         sgst |-> dash[p].sgst, cess |-> dash[p].cess,
         total_tax |-> dash[p].igst + dash[p].cgst + dash[p].sgst]]

\* 5. Build Dashboard Summary: the six sums, the home state, the proportions
\* and the totals; an exception of sum_sheet ends the run
BuildDashboard ==
    /\ pc = "reported"
    /\ \E acc \in {summed_sheets(wb, sheetnames)} :
          \E best \in {best_state_of(acc.taxes, acc.dash["hsn"].cgst, 1, None, 0)} :
              /\ implicit_taxes_by_pos' = acc.taxes
              /\ implicit_cats_by_pos' = acc.cats
              /\ IF acc.raised
                 THEN /\ pc' = "raised"
                      /\ dash_data' = acc.dash
                      /\ best_state' = None
                 ELSE /\ pc' = "summarised"
                      /\ dash_data' = with_total_tax(apportioned(acc.dash, acc.cats, best))
                      /\ best_state' = best
    /\ UNCHANGED <<wb, sheetnames, errors, b2cs_additions, hsn_b2b_deductions,
                   total_checked, total_moved, error_csv, wb0, hsn_pre, b2cs_pre>>
    /\ UNCHANGED <<storeVars, genVars>>

Next ==
    \/ SelectSheets
    \/ VerifyB2B
    \/ WriteB2CS
    \/ FixHsnCodes
    \/ Reapportion
    \/ ComposeReport
    \/ BuildDashboard

Spec == Init /\ [][Next]_vars

SpecHsn == InitHsn /\ [][Next]_vars

\* runs over workbooks whose only b2b row carries one identifier
SpecGstin == InitGstin /\ [][Next]_vars

(***************************************************************************)
(* Properties of the verification run                                      *)
(***************************************************************************)
\* the column whose header is exactly the given text; 0 when there is none
col_named(ws, name) ==
    first_of({c \in 1..max_column(ws) : str_strip(str(cell(ws, 1, c))) = name}, 0)

\* the sum of a column over the rows from..Len(ws), read as clean_val reads cells
RECURSIVE sum_col(_, _, _)
sum_col(ws, c, from) ==
    IF from > Len(ws) \/ c = 0 THEN 0
    ELSE clean_val(cell(ws, from, c)) + sum_col(ws, c, from + 1)

taxable_total(ws, from) == sum_col(ws, col_named(ws, Hdr.Taxable_Value), from)

Module1Done == pc \in {"module2a", "module2b", "report", "reported"}

\* C1: once the additions are written, the taxable value of the rows added to
\* the b2cs sheet equals the taxable value of the rows removed from the b2b
\* sheet (its total as loaded less its total now).
C1_Conservation ==
    Module1Done =>
        taxable_total(wb["b2cs"], max_row(b2cs_pre) + 1)
          = taxable_total(wb0["b2b"], 2) - taxable_total(wb["b2b"], 2)

\* a run that moved two rows into one bucket under an older b2cs row and kept
\* a third
C1_Witness ==
    /\ Module1Done
    /\ total_moved = 2
    /\ Len(b2cs_additions) = 1
    /\ Len(wb["b2b"]) = 2
    /\ Len(b2cs_pre) = 2
    /\ taxable_total(wb["b2cs"], max_row(b2cs_pre) + 1) > 0

StepBDone == pc \in {"report", "reported"}

hsn_taxable_col(ws) == col_named(ws, Hdr.Total_Taxable_Value)

\* the taxable value of the hsn rows at one rate
RECURSIVE hsn_total_at(_, _, _)
hsn_total_at(ws, rate, r) ==
    IF r > Len(ws) THEN 0
    ELSE (IF clean_val(cell(ws, r, col_named(ws, Hdr.Rate))) = rate
          THEN clean_val(cell(ws, r, hsn_taxable_col(ws))) ELSE 0)
         + hsn_total_at(ws, rate, r + 1)

HsnRates == {5, 18}

\* C2: Step B leaves the total taxable value of the hsn sheet unchanged, and
\* unchanged at every rate: what a donor row loses, a destination row of the
\* same rate gains.
C2_HsnConservation ==
    StepBDone =>
        /\ sum_col(wb["hsn"], hsn_taxable_col(wb["hsn"]), 2)
             = sum_col(hsn_pre, hsn_taxable_col(hsn_pre), 2)
        /\ \A rate \in HsnRates :
              hsn_total_at(wb["hsn"], rate, 2) = hsn_total_at(hsn_pre, rate, 2)

hsn_tax(ws, r) == clean_val(cell(ws, r, hsn_taxable_col(ws)))

\* Step B raised an existing B2C row and also cloned a new one
C2_Witness ==
    /\ StepBDone
    /\ Len(wb["hsn"]) > Len(hsn_pre)
    /\ \E r \in 2..Len(hsn_pre) : hsn_tax(wb["hsn"], r) > hsn_tax(hsn_pre, r)
    /\ \E r \in 2..Len(hsn_pre) : hsn_tax(wb["hsn"], r) < hsn_tax(hsn_pre, r)

is_donor(ws, r) ==
    /\ col_named(ws, Hdr.Type) # 0
    /\ str_upper(str_strip(str(cell(ws, r, col_named(ws, Hdr.Type))))) = Lit.B2B

Alnum == Digit \cup UpperLetter

\* two digits, five letters, four digits, a letter, an entity character, Z,
\* an alphanumeric
gstin_shape(t, entity) ==
    /\ Len(t) = 15
    /\ \A i \in {1, 2} \cup (8..11) : t[i] \in Digit
    /\ \A i \in (3..7) \cup {12} : t[i] \in UpperLetter
    /\ t[13] \in entity
    /\ t[14] = "Z"
    /\ t[15] \in Alnum

\* the identifier of the only b2b row as loaded, and whether the row was kept
the_gstin == cell(wb0["b2b"], 2, 1)
row_kept == wb["b2b"] = wb0["b2b"] /\ total_moved = 0 /\ errors = <<>>
row_moved == Len(wb["b2b"]) = 1 /\ total_moved = 1 /\ Len(errors) = 1

\* C5 as stated: a non-blank identifier is accepted exactly when it has the
\* shape with any digit 0-9 or letter in the entity position.
C5_AnyAlnumEntity ==
    (Module1Done /\ truthy(the_gstin)) =>
        /\ row_kept <=> gstin_shape(gstin_text(the_gstin), Alnum)
        /\ row_moved <=> ~gstin_shape(gstin_text(the_gstin), Alnum)

\* C5: a non-blank identifier, trimmed and upper-cased, is accepted exactly
\* when it has the shape with a digit 1-9 or a letter in the entity position;
\* every other non-blank identifier is rejected and its row reclassified.
C5_NonZeroEntity ==
    (Module1Done /\ truthy(the_gstin)) =>
        /\ row_kept <=> gstin_shape(gstin_text(the_gstin), Alnum \ {"0"})
        /\ row_moved <=> ~gstin_shape(gstin_text(the_gstin), Alnum \ {"0"})

\* an identifier whose only defect is the entity character 0 was rejected
C5_Witness ==
    /\ Module1Done
    /\ truthy(the_gstin)
    /\ gstin_shape(gstin_text(the_gstin), {"0"})
    /\ row_moved

\* C6 as stated: the buckets are keyed by the normalized place of supply and
\* the rate, so no two buckets of one run have the same normalized place of
\* supply and the same rate.
C6_NormalizedBuckets ==
    Module1Done =>
        \A i, j \in 1..Len(b2cs_additions) :
            (/\ normalize_pos(b2cs_additions[i].pos)
                  = normalize_pos(b2cs_additions[j].pos)
             /\ b2cs_additions[i].rate = b2cs_additions[j].rate) => i = j

\* text.split(sep) for a one-character separator
RECURSIVE split(_, _)
split(s, sep) ==
    IF \A i \in 1..Len(s) : s[i] # sep THEN <<s>>
    ELSE LET i == Min({k \in 1..Len(s) : s[k] = sep})
         IN  <<SubSeq(s, 1, i - 1)>> \o split(SubSeq(s, i + 1, Len(s)), sep)

\* the lines of a text that ends each line with a line feed
lines_of(text) ==
    LET parts == split(text, "\n")
    IN  IF parts[Len(parts)] = <<>> THEN SubSeq(parts, 1, Len(parts) - 1) ELSE parts

\* C7 as stated: the report is the six-field header line followed by exactly
\* one line of exactly six comma-delimited fields per error record.
C7_SixFieldRows ==
    pc = "reported" =>
        LET ls == lines_of(error_csv)
        IN  /\ ls[1] = join(<<",">>, report_headers)
            /\ Len(ls) = 1 + Len(errors)
            /\ \A i \in 1..Len(ls) : Len(split(ls[i], ",")) = 6

(***************************************************************************)
(* Verification runs against the byte storage                              *)
(***************************************************************************)
MaxClock == 1    \* the seconds the clock may advance

Runs == {1, 2}

\* customer_id: Optional[str] = None
NoCustomer == ""

Requests ==
    [storage_key : {"uploads/gstr1.xlsx"},
     ca_code : {"CA1", "CA2"},
     customer_id : {"c1", NoCustomer}]

\* base_path = f"outputs/{payload.ca_code}/{payload.customer_id or 'unknown'}"
base_path(payload) ==
    <<"outputs", payload.ca_code,
      IF payload.customer_id = NoCustomer THEN "unknown" ELSE payload.customer_id>>

\* f"{base_path}/corrected_{timestamp}.xlsx"
corrected_key_of(payload, timestamp) ==
    base_path(payload) \o <<"corrected", timestamp, ".xlsx">>

\* f"{base_path}/error_report_{timestamp}.csv"
error_key_of(payload, timestamp) ==
    base_path(payload) \o <<"error_report", timestamp, ".csv">>

NoKey == <<>>

\* no verification run in memory
RunIdle ==
    /\ pc = "idle"
    /\ wb = <<>>
    /\ sheetnames = {}
    /\ wb0 = <<>>
    /\ errors = <<>>
    /\ b2cs_additions = <<>>
    /\ hsn_b2b_deductions = <<>>
    /\ total_checked = 0
    /\ total_moved = 0
    /\ error_csv = <<>>
    /\ hsn_pre = <<>>
    /\ b2cs_pre = <<>>
    /\ dash_data = <<>>
    /\ implicit_taxes_by_pos = <<>>
    /\ implicit_cats_by_pos = <<>>
    /\ best_state = None

InitStore ==
    /\ req \in [Runs -> Requests]
    /\ run = [r \in Runs |->
                [pc |-> "read", attempts |-> <<>>, source |-> "none",
                 local_error |-> "none", error |-> "none",
                 corrected_key |-> NoKey, error_key |-> NoKey]]
    /\ disk = <<>>
    /\ src_on_disk \in BOOLEAN
    /\ clock = 0
    /\ RunIdle
    /\ GenIdle

\* excel_bytes = storage.read_bytes(payload.storage_key): ValueError when the
\* path does not exist, the error of path.read_bytes() when the read fails;
\* either is caught by  except Exception as read_err
ReadLocal(r) ==
    /\ run[r].pc = "read"
    /\ \E outcome \in IF src_on_disk THEN {"ok", "OSError"} ELSE {"ValueError"} :
          run' = [run EXCEPT ![r].attempts = Append(@, "local"),
                             ![r].pc = IF outcome = "ok" THEN "loaded" ELSE "fallback",
                             ![r].source = IF outcome = "ok" THEN "local" ELSE @,
                             ![r].local_error = IF outcome = "ok" THEN @ ELSE outcome]
    /\ UNCHANGED <<req, disk, src_on_disk, clock, runVars, genVars>>

\* a handler that lets the failure of the local read reach the caller
ReadR2_skipped(r) ==
    /\ run[r].pc = "fallback"
    /\ run' = [run EXCEPT ![r].pc = "failed", ![r].error = run[r].local_error]
    /\ UNCHANGED <<req, disk, src_on_disk, clock, runVars, genVars>>

\* the handler of the failed local read: one s3.get_object against R2, whose
\* failure is raised as HTTPException(status_code=500)
ReadR2(r) ==
    /\ run[r].pc = "fallback"
    /\ \E ok \in BOOLEAN :
          run' = [run EXCEPT ![r].attempts = Append(@, "r2"),
                             ![r].pc = IF ok THEN "loaded" ELSE "failed",
                             ![r].source = IF ok THEN "r2" ELSE @,
                             ![r].error = IF ok THEN @ ELSE "HTTPException(500)"]
    /\ UNCHANGED <<req, disk, src_on_disk, clock, runVars, genVars>>

\* load_workbook, the modules, the dashboard, the timestamp and the two keys;
\* an exception on the way (bytes that are no workbook) ends the run
Verify(r) ==
    /\ run[r].pc = "loaded"
    /\ \E ok \in BOOLEAN :
          run' = IF ok
                 THEN [run EXCEPT ![r].pc = "save_corrected",
                                  ![r].corrected_key = corrected_key_of(req[r], clock),
                                  ![r].error_key = error_key_of(req[r], clock)]
                 ELSE [run EXCEPT ![r].pc = "failed", ![r].error = "Exception"]
    /\ UNCHANGED <<req, disk, src_on_disk, clock, runVars, genVars>>

\* storage.save_file(key, content): mkdir, then path.write_bytes(content),
\* which on failure leaves no file or a truncated one
save_file(r, key, kind, outcome) ==
    CASE outcome = "ok" -> (key :> [by |-> r, kind |-> kind, whole |-> TRUE]) @@ disk
      [] outcome = "truncated" ->
            (key :> [by |-> r, kind |-> kind, whole |-> FALSE]) @@ disk
      [] OTHER -> disk

SaveOutcomes == {"ok", "truncated", "nothing"}

\* storage.save_file(corrected_key, corrected_buf.getvalue(), ...)
SaveCorrected(r) ==
    /\ run[r].pc = "save_corrected"
    /\ \E outcome \in SaveOutcomes :
          /\ disk' = save_file(r, run[r].corrected_key, "corrected", outcome)
          /\ run' = IF outcome = "ok"
                    THEN [run EXCEPT ![r].pc = "save_report"]
                    ELSE [run EXCEPT ![r].pc = "failed", ![r].error = "OSError"]
    /\ UNCHANGED <<req, src_on_disk, clock, runVars, genVars>>

\* storage.save_file(error_key, error_csv.encode('utf-8'), 'text/csv'), then
\* the summary is returned
SaveReport(r) ==
    /\ run[r].pc = "save_report"
    /\ \E outcome \in SaveOutcomes :
          /\ disk' = save_file(r, run[r].error_key, "error_report", outcome)
          /\ run' = IF outcome = "ok"
                    THEN [run EXCEPT ![r].pc = "done"]
                    ELSE [run EXCEPT ![r].pc = "failed", ![r].error = "OSError"]
    /\ UNCHANGED <<req, src_on_disk, clock, runVars, genVars>>

\* a second passes
Tick ==
    /\ clock < MaxClock
    /\ clock' = clock + 1
    /\ UNCHANGED <<req, run, disk, src_on_disk, runVars, genVars>>

NextStore ==
    \/ \E r \in Runs : ReadLocal(r)
    \/ \E r \in Runs : ReadR2(r)
    \/ \E r \in Runs : Verify(r)
    \/ \E r \in Runs : SaveCorrected(r)
    \/ \E r \in Runs : SaveReport(r)
    \/ Tick

SpecStore == InitStore /\ [][NextStore]_vars

(***************************************************************************)
(* Properties of the runs against the storage                              *)
(***************************************************************************)
\* the complete files a run has in storage
committed_by(r) == {k \in DOMAIN disk : disk[k].by = r /\ disk[k].whole}

\* C4 as stated: a run one of whose storage operations failed has neither a
\* corrected document nor an error report committed in storage.
C4_AllOrNothing ==
    \A r \in DOMAIN run : run[r].pc = "failed" => committed_by(r) = {}

\* C9 as stated: under any interleaving of two runs, once both have completed,
\* the keys each run returned hold the outputs that run wrote.
C9_KeysHoldOwnOutputs ==
    (\A q \in DOMAIN run : run[q].pc = "done") =>
        \A r \in DOMAIN run :
            /\ run[r].corrected_key \in DOMAIN disk
            /\ disk[run[r].corrected_key] = [by |-> r, kind |-> "corrected", whole |-> TRUE]
            /\ run[r].error_key \in DOMAIN disk
            /\ disk[run[r].error_key] = [by |-> r, kind |-> "error_report", whole |-> TRUE]

read_settled(r) == run[r].pc \notin {"read", "fallback"}

MaxFiles == 2    \* most files of one call

\* the tokens get_sheet_name_from_file and process_hsn_data look for
NameTok ==
    [HSN |-> <<"H","S","N">>, B2B |-> <<"B","2","B">>, B2CL |-> <<"B","2","C","L">>,
     B2CS |-> <<"B","2","C","S">>, EXP |-> <<"E","X","P">>,
     EXEMP |-> <<"E","X","E","M","P">>, CDNR |-> <<"C","D","N","R">>,
     CDNUR |-> <<"C","D","N","U","R">>, ATADJ |-> <<"A","T","A","D","J">>,
     AT |-> <<"A","T">>, DOC |-> <<"D","O","C">>, B2C |-> <<"B","2","C">>]

\* the same chain of tests without the two  not in  guards
get_sheet_name_unguarded(file_name) ==
    LET upper == str_upper(file_name)
    IN  CASE str_in(NameTok.HSN, upper) -> "hsn"
          [] str_in(NameTok.B2B, upper) -> "b2b"
          [] str_in(NameTok.B2CL, upper) -> "b2cl"
          [] str_in(NameTok.B2CS, upper) -> "b2cs"
          [] str_in(NameTok.EXP, upper) -> "export"
          [] str_in(NameTok.EXEMP, upper) -> "Nil_exempt_NonGST"
          [] str_in(NameTok.CDNR, upper) -> "cdnr"
          [] str_in(NameTok.CDNUR, upper) -> "cdnur"
          [] str_in(NameTok.AT, upper) -> "adv_tax"
          [] str_in(NameTok.ATADJ, upper) -> "adv_tax_adjusted"
          [] str_in(NameTok.DOC, upper) -> "Docs_issued"
          [] OTHER -> ""

\* get_sheet_name_from_file; "" is None
get_sheet_name_from_file(file_name) ==
    LET upper == str_upper(file_name)
    IN  CASE str_in(NameTok.HSN, upper) -> "hsn"
          [] str_in(NameTok.B2B, upper) -> "b2b"
          [] str_in(NameTok.B2CL, upper) -> "b2cl"
          [] str_in(NameTok.B2CS, upper) -> "b2cs"
          [] str_in(NameTok.EXP, upper) -> "export"
          [] str_in(NameTok.EXEMP, upper) -> "Nil_exempt_NonGST"
          [] str_in(NameTok.CDNR, upper) /\ ~str_in(NameTok.CDNUR, upper) -> "cdnr"
          [] str_in(NameTok.CDNUR, upper) -> "cdnur"
          [] str_in(NameTok.ATADJ, upper) -> "adv_tax_adjusted"
          [] str_in(NameTok.AT, upper) /\ ~str_in(NameTok.ATADJ, upper) -> "adv_tax"
          [] str_in(NameTok.DOC, upper) -> "Docs_issued"
          [] OTHER -> ""

\* what Python does with a step: it returns a value or raises
Returned(v) == [raised |-> FALSE, value |-> v]
Raised == [raised |-> TRUE, value |-> <<>>]

(***************************************************************************)
(* parse_csv_content: csv.DictReader over io.StringIO                      *)
(***************************************************************************)
\* characters written by name: U+FEFF, and the mark the reader feeds itself
\* at the end of every line
Ch == [BOM |-> "U+FEFF", EOL |-> "EOL"]

\* the key None of a row (DictReader's restkey) and the list stored under it
RestKey == <<"None">>
List(n) == [k |-> "list", n |-> n, s |-> <<>>]

\* the reader after parse_reset
parse_reset == [state |-> "START_RECORD", field |-> <<>>, fields |-> <<>>]

parse_save_field(p) == [p EXCEPT !.fields = Append(@, p.field), !.field = <<>>]

\* parse_process_char of the excel dialect: delimiter ',', quotechar '"',
\* doublequote, no escapechar, not strict
parse_process_char(p, c) ==
    LET newline == c \in {"\n", "\r", Ch.EOL}
        after_newline == IF c = Ch.EOL THEN "START_RECORD" ELSE "EAT_CRNL"
        add_char(state) == [p EXCEPT !.field = Append(@, c), !.state = state]
        start_field ==
            IF newline THEN [parse_save_field(p) EXCEPT !.state = after_newline]
            ELSE IF c = "\"" THEN [p EXCEPT !.state = "IN_QUOTED_FIELD"]
            ELSE IF c = "," THEN [parse_save_field(p) EXCEPT !.state = "START_FIELD"]
            ELSE add_char("IN_FIELD")
    IN  CASE p.state = "START_RECORD" ->
               IF c = Ch.EOL THEN p
               ELSE IF newline THEN [p EXCEPT !.state = "EAT_CRNL"]
               ELSE start_field
          [] p.state = "START_FIELD" -> start_field
          [] p.state = "IN_FIELD" ->
               IF newline THEN [parse_save_field(p) EXCEPT !.state = after_newline]
               ELSE IF c = "," THEN [parse_save_field(p) EXCEPT !.state = "START_FIELD"]
               ELSE add_char("IN_FIELD")
          [] p.state = "IN_QUOTED_FIELD" ->
               IF c = Ch.EOL THEN p
               ELSE IF c = "\"" THEN [p EXCEPT !.state = "QUOTE_IN_QUOTED_FIELD"]
               ELSE add_char("IN_QUOTED_FIELD")
          [] p.state = "QUOTE_IN_QUOTED_FIELD" ->
               IF c = "\"" THEN add_char("IN_QUOTED_FIELD")
               ELSE IF c = "," THEN [parse_save_field(p) EXCEPT !.state = "START_FIELD"]
               ELSE IF newline THEN [parse_save_field(p) EXCEPT !.state = after_newline]
               ELSE add_char("IN_FIELD")
          [] p.state = "EAT_CRNL" ->
               IF c \in {"\n", "\r"} THEN p
               ELSE IF c = Ch.EOL THEN [p EXCEPT !.state = "START_RECORD"]
               ELSE [p EXCEPT !.state = "Error"]
          [] OTHER -> p

\* the lines io.StringIO hands out: a line ends after '\n'
text_lines(text) ==
    LET ends == {i \in 1..Len(text) : text[i] = "\n"} \cup {Len(text)}
        starts == {1} \cup {i + 1 : i \in ends \ {Len(text)}}
        nth(k) == CHOOSE i \in starts : Cardinality({j \in starts : j < i}) = k - 1
    IN  IF text = <<>> THEN <<>>
        ELSE [k \in 1..Cardinality(starts) |->
                SubSeq(text, nth(k), Min({e \in ends : e >= nth(k)}))]

\* the characters of one line through parse_process_char, then the mark
RECURSIVE parse_line(_, _, _)
parse_line(p, line, i) ==
    IF p.state = "Error" THEN p
    ELSE IF i > Len(line) THEN parse_process_char(p, Ch.EOL)
    ELSE parse_line(parse_process_char(p, line[i]), line, i + 1)

\* Reader_iternext, called until the lines are used up: the records read, and
\* whether reading the next one raised csv.Error
RECURSIVE Reader_iternext(_, _, _, _)
Reader_iternext(p, lines, k, records) ==
    IF k > Len(lines)
    THEN [records |-> IF p.field # <<>> \/ p.state = "IN_QUOTED_FIELD"
                      THEN Append(records, parse_save_field(p).fields)
                      ELSE records,
          error |-> FALSE]
    ELSE LET q == parse_line(p, lines[k], 1)
         IN  IF q.state = "Error" THEN [records |-> records, error |-> TRUE]
             ELSE IF q.state = "START_RECORD"
             THEN Reader_iternext(parse_reset, lines, k + 1, Append(records, q.fields))
             ELSE Reader_iternext(q, lines, k + 1, records)

\* DictReader.__next__ on one non-empty record: dict(zip(fieldnames, row)),
\* then the surplus under the key None or None under the names left over
dict_row(fieldnames, row) ==
    LET at(name) == Max({i \in 1..Len(fieldnames) : fieldnames[i] = name})
    IN  [name \in {fieldnames[i] : i \in 1..Len(fieldnames)}
                  \cup (IF Len(row) > Len(fieldnames) THEN {RestKey} ELSE {}) |->
            IF name = RestKey THEN List(Len(row) - Len(fieldnames))
            ELSE IF at(name) <= Len(row) THEN Txt(row[at(name)])
            ELSE None]

\* list(reader): empty records are passed over
RECURSIVE dict_rows(_, _)
dict_rows(fieldnames, records) ==
    IF records = <<>> THEN <<>>
    ELSE IF Head(records) = <<>> THEN dict_rows(fieldnames, Tail(records))
    ELSE <<dict_row(fieldnames, Head(records))>> \o dict_rows(fieldnames, Tail(records))

\* a parser that raises when the text has no header fields
parse_csv_content_failing(content) ==
    LET text == IF content # <<>> /\ Head(content) = Ch.BOM
                THEN Tail(content) ELSE content
        read == Reader_iternext(parse_reset, text_lines(text), 1, <<>>)
    IN  IF read.error \/ read.records = <<>> \/ read.records[1] = <<>> THEN Raised
        ELSE Returned(dict_rows(read.records[1], Tail(read.records)))

\* parse_csv_content; the reader is lazy, so an error in a later line is
\* raised only if the rows are asked for
parse_csv_content(content) ==
    LET text == IF content # <<>> /\ Head(content) = Ch.BOM
                THEN Tail(content) ELSE content
        read == Reader_iternext(parse_reset, text_lines(text), 1, <<>>)
    IN  IF read.records = <<>>
        THEN IF read.error THEN Raised ELSE Returned(<<>>)
        ELSE IF read.records[1] = <<>> THEN Returned(<<>>)
        ELSE IF read.error THEN Raised
        ELSE Returned(dict_rows(read.records[1], Tail(read.records)))

\* the CSV-side names the pre-processing and the match mode look up
Csv ==
    [Total_Number |-> <<"T","o","t","a","l"," ","N","u","m","b","e","r">>,
     Cancelled |-> <<"C","a","n","c","e","l","l","e","d">>,
     Net_Issued |-> <<"N","e","t"," ","I","s","s","u","e","d">>,
     Nature_of_Document |-> <<"N","a","t","u","r","e"," ","o","f"," ","D","o","c","u","m","e","n","t">>,
     Type_of_Document |-> <<"T","y","p","e"," ","o","f"," ","D","o","c","u","m","e","n","t">>,
     SrNoFrom |-> <<"S","r",".","N","o",".","F","r","o","m">>,
     Sr_No_From |-> <<"S","r","."," ","N","o","."," ","F","r","o","m">>,
     Series_From |-> <<"S","e","r","i","e","s"," ","F","r","o","m">>,
     SrNoTo |-> <<"S","r",".","N","o",".","T","o">>,
     Sr_No_To |-> <<"S","r","."," ","N","o","."," ","T","o">>,
     Series_To |-> <<"S","e","r","i","e","s"," ","T","o">>,
     Description |-> <<"D","e","s","c","r","i","p","t","i","o","n">>,
     Type |-> <<"T","y","p","e">>,
     Rate |-> <<"R","a","t","e">>]

\* cleaned = {k: v.strip() for k, v in row.items()}; a short CSV line leaves
\* None in the row, on which .strip() raises
strip_values(row) ==
    IF \E k \in DOMAIN row : row[k].k # "str" THEN Raised
    ELSE Returned([k \in DOMAIN row |-> Txt(str_strip(row[k].s))])

\* float(cleaned.get(key, 0) or 0)
count_of(cleaned, key) ==
    IF key \in DOMAIN cleaned /\ cleaned[key].s # <<>>
    THEN float_of(str_strip(cleaned[key].s))
    ELSE [ok |-> TRUE, v |-> 0]

\* cleaned.get(k1) or cleaned.get(k2) or ... or ''
RECURSIVE get_or(_, _)
get_or(cleaned, keys) ==
    IF keys = <<>> THEN Txt(<<>>)
    ELSE IF Head(keys) \in DOMAIN cleaned /\ truthy(cleaned[Head(keys)])
    THEN cleaned[Head(keys)]
    ELSE get_or(cleaned, Tail(keys))

\* one row of process_docs_issued
docs_row(row) ==
    LET cleaned == strip_values(row)
        total_number == count_of(cleaned.value, Csv.Total_Number)
        cancelled == count_of(cleaned.value, Csv.Cancelled)
    IN  IF cleaned.raised THEN Raised
        ELSE IF ~total_number.ok \/ ~cancelled.ok THEN Raised
        ELSE Returned(
            (Csv.Nature_of_Document :>
                get_or(cleaned.value, <<Csv.Nature_of_Document, Csv.Type_of_Document>>))
            @@ (Csv.SrNoFrom :>
                get_or(cleaned.value, <<Csv.SrNoFrom, Csv.Sr_No_From, Csv.Series_From>>))
            @@ (Csv.SrNoTo :>
                get_or(cleaned.value, <<Csv.SrNoTo, Csv.Sr_No_To, Csv.Series_To>>))
            @@ (Csv.Total_Number :> Float(total_number.v, <<>>))
            @@ (Csv.Cancelled :> Float(cancelled.v, <<>>))
            @@ (Csv.Net_Issued :> Float(total_number.v - cancelled.v, <<>>)))

\* for row in rows: ... processed.append(...); the first row that raises ends it
RECURSIVE docs_rows(_, _)
docs_rows(rows, processed) ==
    IF rows = <<>> THEN Returned(processed)
    ELSE LET one == docs_row(Head(rows))
         IN  IF one.raised THEN Raised
             ELSE docs_rows(Tail(rows), Append(processed, one.value))

process_docs_issued(rows) == docs_rows(rows, <<>>)

\* one row of process_hsn_data
hsn_row(file_name, row) ==
    LET cleaned == strip_values(row)
        typed == IF str_in(NameTok.B2B, str_upper(file_name))
                 THEN (Csv.Type :> Txt(Lit.B2B)) @@ cleaned.value
                 ELSE IF str_in(NameTok.B2C, str_upper(file_name))
                 THEN (Csv.Type :> Txt(Lit.B2C)) @@ cleaned.value
                 ELSE cleaned.value
    IN  IF cleaned.raised THEN Raised
        ELSE Returned(IF Csv.Rate \in DOMAIN typed /\ truthy(typed[Csv.Rate])
                      THEN typed
                      ELSE (Csv.Rate :> Num(0)) @@ typed)

RECURSIVE hsn_rows(_, _, _)
hsn_rows(rows, file_name, processed) ==
    IF rows = <<>> THEN Returned(processed)
    ELSE LET one == hsn_row(file_name, Head(rows))
         IN  IF one.raised THEN Raised
             ELSE hsn_rows(Tail(rows), file_name, Append(processed, one.value))

process_hsn_data(rows, file_name) == hsn_rows(rows, file_name, <<>>)

\* [{k: v.strip() for k, v in row.items()} for row in raw_rows]
RECURSIVE strip_rows(_, _)
strip_rows(raw_rows, processed) ==
    IF raw_rows = <<>> THEN Returned(processed)
    ELSE LET one == strip_values(Head(raw_rows))
         IN  IF one.raised THEN Raised
             ELSE strip_rows(Tail(raw_rows), Append(processed, one.value))

\* the pre-processing of the rows of one file
preprocess(sheet_name, file_name, raw_rows) ==
    IF sheet_name = "Docs_issued" THEN process_docs_issued(raw_rows)
    ELSE IF sheet_name = "hsn" THEN process_hsn_data(raw_rows, file_name)
    ELSE strip_rows(raw_rows, <<>>)

(***************************************************************************)
(* Writing the rows of one file into its sheet                             *)
(***************************************************************************)
\* the texts append_data_to_sheet tests the Excel name for, and writes
Xl ==
    [Place_Of_Supply |-> <<"P","l","a","c","e"," ","O","f"," ","S","u","p","p","l","y">>,
     Invoice_Type |-> <<"I","n","v","o","i","c","e"," ","T","y","p","e">>,
     RCM_Applicable |-> <<"R","C","M"," ","A","p","p","l","i","c","a","b","l","e">>,
     Reverse_Charge |-> <<"R","e","v","e","r","s","e"," ","C","h","a","r","g","e">>,
     Date |-> <<"D","a","t","e">>,
     B2B |-> <<" ","B","2","B">>,
     B2C |-> <<" ","B","2","C">>,
     Y |-> <<"Y">>, Yes |-> <<"Y","e","s">>, N |-> <<"N">>, No |-> <<"N","o">>]

\* STANDARD_MAPPINGS: per sheet, the pairs (CSV name, Excel name) in order
STANDARD_MAPPINGS ==
    [b2b |-> <<
        <<<<"G","S","T","I","N","/","U","I","N"," ","o","f"," ","R","e","c","i","p","i","e","n","t">>,
          <<"G","S","T","I","N","/","U","I","N">>>>,
        <<<<"I","n","v","o","i","c","e"," ","N","u","m","b","e","r">>,
          <<"I","n","v","o","i","c","e"," ","N","o">>>>,
        <<<<"I","n","v","o","i","c","e"," ","d","a","t","e">>,
          <<"D","a","t","e"," ","o","f"," ","I","n","v","o","i","c","e">>>>,
        <<<<"I","n","v","o","i","c","e"," ","V","a","l","u","e">>,
          <<"I","n","v","o","i","c","e"," ","V","a","l","u","e">>>>,
        <<<<"R","a","t","e">>,
          <<"G","S","T","%">>>>,
        <<<<"T","a","x","a","b","l","e"," ","V","a","l","u","e">>,
          <<"T","a","x","a","b","l","e"," ","V","a","l","u","e">>>>,
        <<<<"C","e","s","s"," ","A","m","o","u","n","t">>,
          <<"C","E","S","S">>>>,
        <<<<"P","l","a","c","e"," ","O","f"," ","S","u","p","p","l","y">>,
          <<"P","l","a","c","e"," ","O","f"," ","S","u","p","p","l","y">>>>,
        <<<<"R","e","v","e","r","s","e"," ","C","h","a","r","g","e">>,
          <<"R","C","M"," ","A","p","p","l","i","c","a","b","l","e">>>>,
        <<<<"I","n","v","o","i","c","e"," ","T","y","p","e">>,
          <<"I","n","v","o","i","c","e"," ","T","y","p","e">>>>,
        <<<<"E","-","C","o","m","m","e","r","c","e"," ","G","S","T","I","N">>,
          <<"E","-","C","o","m","m","e","r","c","e"," ","G","S","T","I","N">>>>>>,
     b2cl |-> <<
        <<<<"I","n","v","o","i","c","e"," ","N","u","m","b","e","r">>,
          <<"I","n","v","o","i","c","e"," ","N","o">>>>,
        <<<<"I","n","v","o","i","c","e"," ","d","a","t","e">>,
          <<"D","a","t","e"," ","o","f"," ","I","n","v","o","i","c","e">>>>,
        <<<<"I","n","v","o","i","c","e"," ","V","a","l","u","e">>,
          <<"I","n","v","o","i","c","e"," ","V","a","l","u","e">>>>,
        <<<<"P","l","a","c","e"," ","O","f"," ","S","u","p","p","l","y">>,
          <<"P","l","a","c","e"," ","O","f"," ","S","u","p","p","l","y">>>>,
        <<<<"R","a","t","e">>,
          <<"G","S","T","%">>>>,
        <<<<"T","a","x","a","b","l","e"," ","V","a","l","u","e">>,
          <<"T","a","x","a","b","l","e"," ","V","a","l","u","e">>>>,
        <<<<"C","e","s","s"," ","A","m","o","u","n","t">>,
          <<"C","E","S","S">>>>,
        <<<<"E","-","C","o","m","m","e","r","c","e"," ","G","S","T","I","N">>,
          <<"E","-","C","o","m","m","e","r","c","e"," ","G","S","T","I","N">>>>>>,
     b2cs |-> <<
        <<<<"T","y","p","e">>,
          <<"T","y","p","e">>>>,
        <<<<"P","l","a","c","e"," ","O","f"," ","S","u","p","p","l","y">>,
          <<"P","l","a","c","e"," ","O","f"," ","S","u","p","p","l","y">>>>,
        <<<<"R","a","t","e">>,
          <<"G","S","T","%">>>>,
        <<<<"T","a","x","a","b","l","e"," ","V","a","l","u","e">>,
          <<"T","a","x","a","b","l","e"," ","V","a","l","u","e">>>>,
        <<<<"C","e","s","s"," ","A","m","o","u","n","t">>,
          <<"C","E","S","S">>>>,
        <<<<"E","-","C","o","m","m","e","r","c","e"," ","G","S","T","I","N">>,
          <<"E","-","C","o","m","m","e","r","c","e"," ","G","S","T","I","N">>>>>>,
     export |-> <<
        <<<<"E","x","p","o","r","t"," ","T","y","p","e">>,
          <<"E","x","p","o","r","t"," ","T","y","p","e">>>>,
        <<<<"I","n","v","o","i","c","e"," ","N","u","m","b","e","r">>,
          <<"I","n","v","o","i","c","e"," ","N","o">>>>,
        <<<<"I","n","v","o","i","c","e"," ","d","a","t","e">>,
          <<"D","a","t","e"," ","o","f"," ","I","n","v","o","i","c","e">>>>,
        <<<<"I","n","v","o","i","c","e"," ","V","a","l","u","e">>,
          <<"I","n","v","o","i","c","e"," ","V","a","l","u","e">>>>,
        <<<<"P","o","r","t"," ","C","o","d","e">>,
          <<"P","o","r","t"," ","C","o","d","e">>>>,
        <<<<"S","h","i","p","p","i","n","g"," ","B","i","l","l"," ","N","u","m","b","e","r">>,
          <<"S","h","i","p","p","i","n","g"," ","B","i","l","l"," ","N","o">>>>,
        <<<<"S","h","i","p","p","i","n","g"," ","B","i","l","l"," ","D","a","t","e">>,
          <<"S","h","i","p","p","i","n","g"," ","B","i","l","l"," ","D","a","t","e">>>>,
        <<<<"R","a","t","e">>,
          <<"G","S","T","%">>>>,
        <<<<"T","a","x","a","b","l","e"," ","V","a","l","u","e">>,
          <<"T","a","x","a","b","l","e"," ","V","a","l","u","e">>>>>>,
     Nil_exempt_NonGST |-> <<
        <<<<"D","e","s","c","r","i","p","t","i","o","n">>,
          <<"D","e","s","c","r","i","p","t","i","o","n">>>>,
        <<<<"N","i","l"," ","R","a","t","e","d"," ","S","u","p","p","l","i","e","s">>,
          <<"N","i","l"," ","R","a","t","e","d"," ","S","u","p","p","l","i","e","s">>>>,
        <<<<"E","x","e","m","p","t","e","d"," ","(","o","t","h","e","r"," ","t","h","a","n"," ","n","i","l"," ","r","a","t","e","d","/","n","o","n"," ","G","S","T"," ","s","u","p","p","l","y",")">>,
          <<"E","x","e","m","p","t","e","d","(","o","t","h","e","r"," ","t","h","a","n"," ","n","i","l"," ","r","a","t","e","d","/","n","o","n"," ","G","S","T"," ","s","u","p","p","l","y",")">>>>,
        <<<<"N","o","n","-","G","S","T"," ","s","u","p","p","l","i","e","s">>,
          <<"N","o","n","-","G","S","T"," ","S","u","p","p","l","i","e","s">>>>>>,
     cdnr |-> <<
        <<<<"G","S","T","I","N","/","U","I","N"," ","o","f"," ","R","e","c","i","p","i","e","n","t">>,
          <<"G","S","T","I","N","/","U","I","N">>>>,
        <<<<"N","o","t","e"," ","N","u","m","b","e","r">>,
          <<"D","r",".","/"," ","C","r","."," ","N","o",".">>>>,
        <<<<"N","o","t","e"," ","D","a","t","e">>,
          <<"D","r",".","/","C","r","."," ","D","a","t","e">>>>,
        <<<<"N","o","t","e"," ","T","y","p","e">>,
          <<"T","y","p","e"," ","o","f"," ","n","o","t","e"," "," "," "," "," "," "," "," "," "," "," "," "," "," "," "," ","(","D","r","/"," ","C","r",")">>>>,
        <<<<"P","l","a","c","e"," ","O","f"," ","S","u","p","p","l","y">>,
          <<"P","l","a","c","e"," ","o","f"," ","s","u","p","p","l","y">>>>,
        <<<<"R","e","v","e","r","s","e"," ","C","h","a","r","g","e">>,
          <<"R","C","M">>>>,
        <<<<"N","o","t","e"," ","S","u","p","p","l","y"," ","T","y","p","e">>,
          <<"I","n","v","o","i","c","e"," ","T","y","p","e">>>>,
        <<<<"N","o","t","e"," ","V","a","l","u","e">>,
          <<"D","r",".","/","C","r","."," ","V","a","l","u","e">>>>,
        <<<<"R","a","t","e">>,
          <<"G","S","T","%">>>>,
        <<<<"T","a","x","a","b","l","e"," ","V","a","l","u","e">>,
          <<"T","a","x","a","b","l","e"," ","V","a","l","u","e">>>>,
        <<<<"C","e","s","s"," ","A","m","o","u","n","t">>,
          <<"C","E","S","S">>>>>>,
     cdnur |-> <<
        <<<<"U","R"," ","T","y","p","e">>,
          <<"S","u","p","p","l","y"," ","T","y","p","e">>>>,
        <<<<"N","o","t","e","/","R","e","f","u","n","d"," ","V","o","u","c","h","e","r"," ","N","u","m","b","e","r">>,
          <<"D","r",".","/"," ","C","r","."," ","N","o","t","e"," ","N","o",".">>>>,
        <<<<"N","o","t","e","/","R","e","f","u","n","d"," ","V","o","u","c","h","e","r"," ","d","a","t","e">>,
          <<"D","r",".","/"," ","C","r","."," ","N","o","t","e"," ","D","a","t","e">>>>,
        <<<<"D","o","c","u","m","e","n","t"," ","T","y","p","e">>,
          <<"T","y","p","e"," ","o","f"," ","n","o","t","e"," ","(","D","r",".","/"," ","C","r",".",")">>>>,
        <<<<"P","l","a","c","e"," ","O","f"," ","S","u","p","p","l","y">>,
          <<"P","l","a","c","e"," ","o","f"," ","s","u","p","p","l","y">>>>,
        <<<<"N","o","t","e","/","R","e","f","u","n","d"," ","V","o","u","c","h","e","r"," ","V","a","l","u","e">>,
          <<"D","r",".","/","C","r","."," ","N","o","t","e"," ","V","a","l","u","e">>>>,
        <<<<"R","a","t","e">>,
          <<"G","S","T","%">>>>,
        <<<<"T","a","x","a","b","l","e"," ","V","a","l","u","e">>,
          <<"T","a","x","a","b","l","e"," ","V","a","l","u","e">>>>,
        <<<<"C","e","s","s"," ","A","m","o","u","n","t">>,
          <<"C","E","S","S">>>>>>,
     adv_tax |-> <<
        <<<<"P","l","a","c","e"," ","O","f"," ","S","u","p","p","l","y">>,
          <<"P","l","a","c","e"," ","O","f"," ","S","u","p","p","l","y">>>>,
        <<<<"R","a","t","e">>,
          <<"G","S","T","%">>>>,
        <<<<"G","r","o","s","s"," ","A","d","v","a","n","c","e"," ","R","e","c","e","i","v","e","d">>,
          <<"G","r","o","s","s"," ","A","d","v","a","n","c","e"," ","R","e","c","e","i","v","e","d">>>>,
        <<<<"C","e","s","s"," ","A","m","o","u","n","t">>,
          <<"C","E","S","S">>>>>>,
     adv_tax_adjusted |-> <<
        <<<<"P","l","a","c","e"," ","O","f"," ","S","u","p","p","l","y">>,
          <<"P","l","a","c","e"," ","O","f"," ","S","u","p","p","l","y">>>>,
        <<<<"R","a","t","e">>,
          <<"G","S","T","%">>>>,
        <<<<"G","r","o","s","s"," ","A","d","v","a","n","c","e"," ","A","d","j","u","s","t","e","d">>,
          <<"G","r","o","s","s"," ","A","d","v","a","n","c","e"," ","A","d","j","u","s","t","e","d">>>>,
        <<<<"C","e","s","s"," ","A","m","o","u","n","t">>,
          <<"C","E","S","S">>>>>>,
     Docs_issued |-> <<
        <<<<"N","a","t","u","r","e"," ","o","f"," ","D","o","c","u","m","e","n","t">>,
          <<"N","a","t","u","r","e"," ","o","f"," ","D","o","c","u","m","e","n","t">>>>,
        <<<<"S","r",".","N","o",".","F","r","o","m">>,
          <<"S","r","."," ","N","o","."," ","F","r","o","m">>>>,
        <<<<"S","r",".","N","o",".","T","o">>,
          <<"S","r","."," ","N","o","."," ","T","o">>>>,
        <<<<"T","o","t","a","l"," ","N","u","m","b","e","r">>,
          <<"T","o","t","a","l"," ","N","u","m","b","e","r">>>>,
        <<<<"C","a","n","c","e","l","l","e","d">>,
          <<"C","a","n","c","e","l","l","e","d">>>>,
        <<<<"N","e","t"," ","I","s","s","u","e","d">>,
          <<"N","e","t"," ","I","s","s","u","e","d">>>>>>,
     hsn |-> <<
        <<<<"T","y","p","e">>,
          <<"T","y","p","e">>>>,
        <<<<"H","S","N">>,
          <<"H","S","N">>>>,
        <<<<"D","e","s","c","r","i","p","t","i","o","n">>,
          <<"D","e","s","c","r","i","p","t","i","o","n">>>>,
        <<<<"U","Q","C">>,
          <<"U","Q","C">>>>,
        <<<<"T","o","t","a","l"," ","Q","u","a","n","t","i","t","y">>,
          <<"T","o","t","a","l"," ","Q","u","a","n","t","i","t","y">>>>,
        <<<<"T","o","t","a","l"," ","V","a","l","u","e">>,
          <<"T","o","t","a","l"," ","V","a","l","u","e">>>>,
        <<<<"R","a","t","e">>,
          <<"R","a","t","e">>>>,
        <<<<"T","a","x","a","b","l","e"," ","V","a","l","u","e">>,
          <<"T","o","t","a","l"," ","T","a","x","a","b","l","e"," ","V","a","l","u","e">>>>,
        <<<<"I","n","t","e","g","r","a","t","e","d"," ","T","a","x"," ","A","m","o","u","n","t">>,
          <<"I","G","S","T">>>>,
        <<<<"C","e","n","t","r","a","l"," ","T","a","x"," ","A","m","o","u","n","t">>,
          <<"C","G","S","T">>>>,
        <<<<"S","t","a","t","e","/","U","T"," ","T","a","x"," ","A","m","o","u","n","t">>,
          <<"S","G","S","T">>>>,
        <<<<"C","e","s","s"," ","A","m","o","u","n","t">>,
          <<"C","E","S","S">>>>>>]

\* row_data.get(key, '')
get(row_data, key) == IF key \in DOMAIN row_data THEN row_data[key] ELSE Txt(<<>>)

\* str.replace(t, '')
RECURSIVE str_delete(_, _)
str_delete(s, t) ==
    IF Len(s) < Len(t) \/ t = <<>> THEN s
    ELSE IF SubSeq(s, 1, Len(t)) = t THEN str_delete(SubSeq(s, Len(t) + 1, Len(s)), t)
    ELSE <<Head(s)>> \o str_delete(Tail(s), t)

\* the length of the run of digits a text starts with
RECURSIVE leading_digits(_)
leading_digits(s) ==
    IF s # <<>> /\ Head(s) \in Digit THEN 1 + leading_digits(Tail(s)) ELSE 0

\* re.sub(r'^\d+-\s*', '', str(value)).strip(), '' for a falsy value
clean_place_of_supply(value) ==
    LET s == str(value)
        n == leading_digits(s)
    IN  IF ~truthy(value) THEN <<>>
        ELSE IF n >= 1 /\ n < Len(s) /\ s[n + 1] = "-"
        THEN str_strip(SubSeq(s, n + 2, Len(s)))
        ELSE str_strip(s)

\* the months of %b and their lengths
Months ==
    <<<<"J","A","N">>, <<"F","E","B">>, <<"M","A","R">>, <<"A","P","R">>, <<"M","A","Y">>, <<"J","U","N">>,
      <<"J","U","L">>, <<"A","U","G">>, <<"S","E","P">>, <<"O","C","T">>, <<"N","O","V">>, <<"D","E","C">>>>
DaysIn(month, year) ==
    IF month = 2 THEN (IF year % 4 = 0 THEN 29 ELSE 28)
    ELSE IF month \in {4, 6, 9, 11} THEN 30 ELSE 31

\* where r'(\d{1,2})-([A-Za-z]{3})-(\d{2})' matches at position i: the number
\* of digits of the day, 0 for no match
date_at(s, i) ==
    LET tail_ok(j) ==   \* j is the position of the first hyphen
            /\ j + 6 <= Len(s)
            /\ s[j] = "-" /\ s[j + 4] = "-"
            /\ \A k \in 1..3 : s[j + k] \in UpperLetter \cup LowerLetter
            /\ s[j + 5] \in Digit /\ s[j + 6] \in Digit
    IN  IF i + 1 <= Len(s) /\ s[i] \in Digit /\ s[i + 1] \in Digit /\ tail_ok(i + 2)
        THEN 2
        ELSE IF i <= Len(s) /\ s[i] \in Digit /\ tail_ok(i + 1) THEN 1
        ELSE 0

two_digits(n) == IF n < 10 THEN <<"0">> \o nat_str(n) ELSE nat_str(n)

\* parse_date: DD-MMM-YY becomes DD-MM-YYYY where strptime accepts it
parse_date(value) ==
    LET s == str(value)
        hits == {i \in 1..Len(s) : date_at(s, i) # 0}
        i == Min(hits)
        d == date_at(s, i)
        day == digits_value(SubSeq(s, i, i + d - 1), 0)
        month_str == str_upper(SubSeq(s, i + d + 1, i + d + 3))
        months == {m \in 1..12 : Months[m] = month_str}
        month == Min(months)
        yy == digits_value(SubSeq(s, i + d + 5, i + d + 6), 0)
        year == IF yy >= 69 THEN 1900 + yy ELSE 2000 + yy
    IN  IF ~truthy(value) \/ hits = {} \/ months = {} THEN value
        ELSE IF day < 1 \/ day > DaysIn(month, year) THEN value
        ELSE Txt(two_digits(day) \o <<"-">> \o two_digits(month) \o <<"-">>
                 \o nat_str(year))

\* the transformation append_data_to_sheet picks by the Excel name
transformed(excel_key, val) ==
    IF str_in(Xl.Place_Of_Supply, excel_key) THEN Txt(clean_place_of_supply(val))
    ELSE IF str_in(Xl.Invoice_Type, excel_key)
    THEN Txt(str_strip(str_delete(str_delete(str(val), Xl.B2B), Xl.B2C)))
    ELSE IF excel_key \in {Xl.RCM_Applicable, Xl.Reverse_Charge}
    THEN (IF val = Txt(Xl.Y) THEN Txt(Xl.Yes)
          ELSE IF val = Txt(Xl.N) THEN Txt(Xl.No) ELSE val)
    ELSE IF str_in(Xl.Date, excel_key) THEN parse_date(val)
    ELSE val

\* s.replace('.', '', 1).isdigit()
is_number_text(s) ==
    LET dots == {i \in 1..Len(s) : s[i] = "."}
        rest == IF dots = {} THEN s
                ELSE SubSeq(s, 1, Min(dots) - 1) \o SubSeq(s, Min(dots) + 1, Len(s))
    IN  rest # <<>> /\ \A i \in 1..Len(rest) : rest[i] \in Digit

\* float(s) of such a text: the whole part, and the decimals that are not
\* trailing zeros
RECURSIVE rstrip_zeros(_)
rstrip_zeros(s) ==
    IF s # <<>> /\ s[Len(s)] = "0" THEN rstrip_zeros(SubSeq(s, 1, Len(s) - 1)) ELSE s

to_float(s) ==
    LET dots == {i \in 1..Len(s) : s[i] = "."}
        whole == IF dots = {} THEN s ELSE SubSeq(s, 1, Min(dots) - 1)
        decimals == IF dots = {} THEN <<>> ELSE SubSeq(s, Min(dots) + 1, Len(s))
    IN  Float(digits_value(whole, 0), rstrip_zeros(decimals))

\* if isinstance(val, str) and val.replace('.','',1).isdigit(): val = float(val)
converted(val) ==
    IF val.k = "str" /\ is_number_text(val.s) THEN to_float(val.s) ELSE val

\* headers[str(cell.value).strip()] = cell.column over the given columns of
\* row 1: the column of a name, 0 when the name is no key
header_column(ws, columns, name) ==
    LET hits == {c \in columns : str_strip(str(cell(ws, 1, c))) = name}
    IN  IF hits = {} THEN 0 ELSE Max(hits)

\* the row the first record goes to: below the last row, or below the last
\* non-empty row among the rows max_row .. 2
start_row_of(ws) ==
    LET filled == {r \in 2..max_row(ws) :
                      \E c \in 1..max_column(ws) : cell(ws, r, c) # None}
    IN  IF filled = {} THEN max_row(ws) + 1 ELSE Max(filled) + 1

\* the sheet after the writes  ws.cell(row=w.row, column=w.col, value=w.val)
\* made in the order of w.at; of two writes to one cell the later one stays
cells_written(ws, writes) ==
    LET last(r, c) ==
            CHOOSE w \in writes :
                /\ w.row = r /\ w.col = c
                /\ \A v \in writes : (v.row = r /\ v.col = c) =>
                      \/ v.at[1] < w.at[1]
                      \/ v.at[1] = w.at[1] /\ v.at[2] <= w.at[2]
        width(r) == Max({IF r <= Len(ws) THEN Len(ws[r]) ELSE 0}
                        \cup {w.col : w \in {v \in writes : v.row = r}})
    IN  [r \in 1..Max({Len(ws)} \cup {w.row : w \in writes}) |->
            [c \in 1..width(r) |->
                IF \E w \in writes : w.row = r /\ w.col = c
                THEN last(r, c).val ELSE cell(ws, r, c)]]

\* append_data_to_sheet: record n of the data goes to row start_row + n - 1,
\* each mapped value to the column of its Excel name
append_data_to_sheet(ws, data, mapping_dict) ==
    LET columns == {c \in 1..max_column(ws) : cell(ws, 1, c) # None}
        col_idx(i) == header_column(ws, columns, mapping_dict[i][2])
        start_row == start_row_of(ws)
    IN  cells_written(ws,
            {[row |-> start_row + n - 1, col |-> col_idx(i), at |-> <<n, i>>,
              val |-> converted(transformed(mapping_dict[i][2],
                                            get(data[n], mapping_dict[i][1])))] :
                n \in 1..Len(data),
                i \in {j \in 1..Len(mapping_dict) : col_idx(j) # 0}})

\* template_desc_map[str(row[0]).strip()] = row_idx: the row of a description,
\* 0 when it is no key
template_desc_row(ws, desc) ==
    LET hits == {r \in 2..max_row(ws) :
                    truthy(cell(ws, r, 1)) /\ str_strip(str(cell(ws, r, 1))) = desc}
    IN  IF hits = {} THEN 0 ELSE Max(hits)

\* the value update_exempt_sheet writes for a value that is not ''
exempt_value(value) ==
    LET text == str_remove(str(value), ",")
    IN  IF is_number_text(text) THEN to_float(text) ELSE Txt(str(value))

\* the nil/exempt sheet filled the way the other sheets are
update_exempt_sheet_appending(ws, data, mapping_dict) ==
    append_data_to_sheet(ws, data, mapping_dict)

\* update_exempt_sheet: a record whose description is in the template goes to
\* the row of that description, each mapped value that is not '' to the
\* column of its Excel name
update_exempt_sheet(ws, data, mapping_dict) ==
    LET columns == {c \in 1..max_column(ws) : truthy(cell(ws, 1, c))}
        col_idx(i) == header_column(ws, columns, mapping_dict[i][2])
        row_idx(n) ==
            template_desc_row(ws, str_strip(str(get(data[n], Csv.Description))))
        value(n, i) == get(data[n], mapping_dict[i][1])
    IN  cells_written(ws,
            {[row |-> row_idx(w[1]), col |-> col_idx(w[2]), at |-> w,
              val |-> exempt_value(value(w[1], w[2]))] :
                w \in {v \in (1..Len(data)) \X (1..Len(mapping_dict)) :
                          /\ row_idx(v[1]) # 0
                          /\ col_idx(v[2]) # 0
                          /\ value(v[1], v[2]) # Txt(<<>>)}})

\* ws = wb.create_sheet(sheet_name) or wb[sheet_name], then the write in the
\* mode of the sheet
written(book, sheet_name, rows) ==
    LET ws == IF sheet_name \in DOMAIN book THEN book[sheet_name] ELSE <<>>
        mapping == STANDARD_MAPPINGS[sheet_name]
    IN  (sheet_name :> IF sheet_name = "Nil_exempt_NonGST"
                       THEN update_exempt_sheet(ws, rows, mapping)
                       ELSE append_data_to_sheet(ws, rows, mapping))
        @@ book

\* the files a call may be given, each a name and its text
CsvFile(name, content) == [name |-> name, content |-> content]

CsvFiles ==
    {CsvFile(Sample.DocsName, <<"T","o","t","a","l"," ","N","u","m","b","e","r",",","C","a","n","c","e","l","l","e","d","\n","5",","," ","1","\n">>),
     CsvFile(Sample.DocsName, <<"T","o","t","a","l"," ","N","u","m","b","e","r",",","C","a","n","c","e","l","l","e","d","\n","7",",","\n","a","b","c",",","1","\n">>),
     CsvFile(Sample.DocsName, <<"T","o","t","a","l"," ","N","u","m","b","e","r","\n","1","\r","2","\n">>),
     CsvFile(Sample.B2BName, <<"R","a","t","e",",","T","a","x","a","b","l","e"," ","V","a","l","u","e","\n","a","b","c",",","1"," ","\n">>),
     CsvFile(Sample.B2BName, <<"R","a","t","e",",","T","a","x","a","b","l","e"," ","V","a","l","u","e","\n">>),
     CsvFile(Sample.B2BName, <<"R","a","t","e",",","T","a","x","a","b","l","e"," ","V","a","l","u","e","\n","1","\n">>),
     CsvFile(Sample.HsnName, <<"H","S","N",",","R","a","t","e","\n","1","0","0","1"," ",",","\n">>),
     CsvFile(Sample.OtherName, <<"R","a","t","e","\n","1","\n">>)}

\* the sheet of the template workbook for a category: its header row holds the
\* Excel names of the category's mapping
header_row(sheet_name) ==
    [i \in 1..Len(STANDARD_MAPPINGS[sheet_name]) |->
        Txt(STANDARD_MAPPINGS[sheet_name][i][2])]

\* the workbook the call starts from: Workbook() when the template file is
\* missing, else the template
Workbooks ==
    {<<>>,
     [b2b |-> <<header_row("b2b")>>,
      Docs_issued |-> <<header_row("Docs_issued")>>,
      hsn |-> <<header_row("hsn")>>]}

InitGen ==
    /\ csv_files \in SeqsUpTo(CsvFiles, MaxFiles)
    /\ file_idx = 1
    /\ gen_pc = "loop"
    /\ sheets_processed = 0
    /\ gen_wb \in Workbooks
    /\ gen_wb0 = gen_wb
    /\ gstr1_json = <<>>
    /\ RunIdle
    /\ StoreIdle

\* one pass of  for csv_file in csv_files
ProcessFile ==
    /\ gen_pc = "loop"
    /\ file_idx <= Len(csv_files)
    /\ LET csv_file == csv_files[file_idx]
           sheet_name == get_sheet_name_from_file(csv_file.name)
           raw_rows == parse_csv_content(csv_file.content)
           rows == preprocess(sheet_name, csv_file.name, raw_rows.value)
       IN  IF sheet_name = "" \/ raw_rows.raised \/ raw_rows.value = <<>>
           THEN \* continue
                /\ file_idx' = file_idx + 1
                /\ UNCHANGED <<gen_pc, sheets_processed, gen_wb>>
           ELSE IF rows.raised
           THEN \* the exception leaves generate_gstr1_excel
                /\ gen_pc' = "raised"
                /\ UNCHANGED <<file_idx, sheets_processed, gen_wb>>
           ELSE /\ gen_wb' = written(gen_wb, sheet_name, rows.value)
                /\ sheets_processed' = sheets_processed + 1
                /\ file_idx' = file_idx + 1
                /\ UNCHANGED gen_pc
    /\ UNCHANGED <<csv_files, gen_wb0, gstr1_json, runVars, storeVars>>

\* wb.save(out); return out.getvalue(), sheets_processed
Serialize ==
    /\ gen_pc = "loop"
    /\ file_idx > Len(csv_files)
    /\ gen_pc' = "saved"
    /\ UNCHANGED <<csv_files, file_idx, sheets_processed, gen_wb, gen_wb0, gstr1_json,
                    runVars, storeVars>>

NextGen ==
    \/ ProcessFile
    \/ Serialize

SpecGen == InitGen /\ [][NextGen]_vars

\* C8 as stated: a file whose parsing or normalizing fails is the only thing
\* that fails: the call does not abort, and once the loop is over every file
\* has been passed and the document serialized.
C8_FailureStaysInFile ==
    /\ gen_pc # "raised"
    /\ gen_pc = "saved" => file_idx = Len(csv_files) + 1

(***************************************************************************)
(* Properties of the validation pass over the rows                         *)
(***************************************************************************)
\* the pass runs over a b2b sheet that has the identifier, the taxable-value
\* and the rate column
pass_ran ==
    /\ "b2b" \in sheetnames
    /\ col_named(wb0["b2b"], Hdr.GSTIN_UIN) # 0
    /\ col_named(wb0["b2b"], Hdr.Taxable_Value) # 0
    /\ col_named(wb0["b2b"], Hdr.GSTPCT) # 0

\* a row of the loaded b2b sheet stays: blank identifier, or a well-formed one
row_stays(r) ==
    LET v == cell(wb0["b2b"], r, col_named(wb0["b2b"], Hdr.GSTIN_UIN))
    IN  ~truthy(v) \/ gstin_shape(gstin_text(v), Alnum \ {"0"})

\* the indices (in the loaded sheet) of the data rows that stay / are removed
staying == {r \in 2..Len(wb0["b2b"]) : row_stays(r)}
removed == {r \in 2..Len(wb0["b2b"]) : ~row_stays(r)}

\* C19: after the validation pass the data rows of the b2b sheet are exactly
\* the rows with a blank or well-formed identifier, in their original order
\* and cell for cell as loaded; every other row is gone.
C19_ExactlyAcceptedRowsRemain ==
    (Module1Done /\ pass_ran) =>
        /\ Len(wb["b2b"]) = 1 + Cardinality(staying)
        /\ wb["b2b"][1] = wb0["b2b"][1]
        /\ \A r \in staying :
              wb["b2b"][1 + Cardinality({q \in staying : q <= r})] = wb0["b2b"][r]

\* the first two data rows, adjacent, were removed and the third moved up
C19_Witness ==
    /\ Module1Done /\ pass_ran
    /\ Len(wb0["b2b"]) = 4
    /\ removed = {2, 3}
    /\ Len(wb["b2b"]) = 2
    /\ wb["b2b"][2] = wb0["b2b"][4]

\* what a removed row contributes: its place of supply as text, its rate, its
\* taxable value and its cess
removed_field(r, name, missing) ==
    IF col_named(wb0["b2b"], name) = 0 THEN missing
    ELSE cell(wb0["b2b"], r, col_named(wb0["b2b"], name))

removed_pos(r) == str(removed_field(r, Hdr.Place_Of_Supply, Txt(Lit.Unknown_POS)))
removed_rate(r) == clean_val(removed_field(r, Hdr.GSTPCT, None))

RECURSIVE removed_sum(_, _, _, _)
removed_sum(rows, pos, rate, name) ==
    IF rows = {} THEN 0
    ELSE LET r == Min(rows)
         IN  (IF removed_pos(r) = pos /\ removed_rate(r) = rate
              THEN clean_val(removed_field(r, name, None)) ELSE 0)
             + removed_sum(rows \ {r}, pos, rate, name)

\* the column of the b2cs sheet whose header is one of the given texts
col_of(ws, names) ==
    first_of({c \in 1..max_column(ws) : str_strip(str(cell(ws, 1, c))) \in names}, 0)

\* C20: the b2cs sheet has gained exactly one row per distinct (place of
\* supply, rate) pair among the removed b2b rows, tagged OE and carrying the
\* pair's summed taxable value and summed cess; the rows it held before, the
\* header among them, are unchanged.
C20_OneRowPerPair ==
    (Module1Done /\ pass_ran) =>
        LET ws == wb["b2cs"]
            first == max_row(b2cs_pre) + 1
            news == first..Len(ws)
            pairs == {<<removed_pos(r), removed_rate(r)>> : r \in removed}
            pos_c == col_of(ws, {Hdr.Place_Of_Supply})
            rate_c == col_of(ws, {Hdr.Rate, Hdr.GSTPCT})
            pair_of(n) == <<str(cell(ws, n, pos_c)), clean_val(cell(ws, n, rate_c))>>
        IN  /\ Cardinality(news) = Cardinality(pairs)
            /\ {pair_of(n) : n \in news} = pairs
            /\ \A n \in news :
                  /\ cell(ws, n, col_of(ws, {Hdr.Type})) = Txt(Lit.OE)
                  /\ clean_val(cell(ws, n, col_of(ws, {Hdr.Taxable_Value})))
                       = removed_sum(removed, pair_of(n)[1], pair_of(n)[2],
                                     Hdr.Taxable_Value)
                  /\ clean_val(cell(ws, n, col_of(ws, {Hdr.CESS, Hdr.Cess_Amount})))
                       = removed_sum(removed, pair_of(n)[1], pair_of(n)[2], Hdr.CESS)
            /\ \A r \in 1..Len(b2cs_pre) : ws[r] = b2cs_pre[r]

\* three removed rows in two pairs, written under an older b2cs row
C20_Witness ==
    /\ Module1Done /\ pass_ran
    /\ Cardinality(removed) = 3
    /\ Len(b2cs_pre) = 2
    /\ Len(wb["b2cs"]) = 4
    /\ \E n \in 3..4 :
          clean_val(cell(wb["b2cs"], n, col_of(wb["b2cs"], {Hdr.CESS}))) = 2

(***************************************************************************)
(* Runs over hsn sheets whose only row carries one code                    *)
(***************************************************************************)
\* codes: short digit strings, the master codes, and codes with padding, a
\* decimal suffix or a numeric cell
HsnCodeCells ==
    {None, Num(1001), Num(99841)}
    \cup {Txt(c) : c \in UNION {[1..n -> {"0", "1", "9"}] : n \in 1..3}}
    \cup {Txt(STANDARD_HSN_MASTER[i]) : i \in 1..Len(STANDARD_HSN_MASTER)}
    \cup {Txt(c) : c \in {<<"9","9","8","4","1">>, <<" ","1","0","0","1"," ">>,
                          <<"1","0","0","1",".","0">>, <<"9","9","8","4","1",".","0">>,
                          <<"0","0","0","0","0","0">>, <<"0","0","0","0","0","0",".","0">>,
                          <<".">>, <<"8","4","7","1","3">>}}

InitHsnCode ==
    /\ \E c \in HsnCodeCells :
          Loaded(<<>>, <<>>,
                 sheet_of(<<"type", "hsn", "total", "rate", "tax", "cgst">>, HsnHeader,
                          <<[type |-> Txt(Lit.B2B), hsn |-> c, total |-> Num(2),
                             rate |-> Num(18), tax |-> Num(1), cgst |-> Num(1)]>>))
    /\ StoreIdle
    /\ GenIdle

SpecHsnCode == InitHsnCode /\ [][Next]_vars

StepADone == pc \in {"module2b", "report", "reported"}

\* the code cell of the only hsn row as loaded and now
code_before == cell(wb0["hsn"], 2, col_named(wb0["hsn"], Hdr.HSN))
code_now == cell(wb["hsn"], 2, col_named(wb["hsn"], Hdr.HSN))

\* the code as looked up: trimmed and cut at the first '.'
code_key == before_dot(str_strip(str(code_before)))

Master == {STANDARD_HSN_MASTER[i] : i \in 1..Len(STANDARD_HSN_MASTER)}

\* similarity of a master code to the looked-up code is at least 6/10
similar(m) == 10 * ratio(m, code_key)[1] >= 6 * ratio(m, code_key)[2]

\* the cell keeps the code it held (only padding or a decimal suffix may go)
code_kept ==
    IF code_key = str_strip(str(code_before)) \/ code_key = <<>>
    THEN code_now = code_before
    ELSE code_now = Txt(code_key)

FileNames ==
    LET parts == {NameTok[k] : k \in DOMAIN NameTok \ {"B2C"}}
                 \cup {<<"x">>, <<"b","2","c","s">>, <<"c","d","n","u","r">>,
                       <<"a","t","a","d","j">>}
    IN  {a \o <<"_">> \o b \o <<".","c","s","v">> : a \in parts, b \in parts}

InitName ==
    /\ \E n \in FileNames :
          csv_files = <<CsvFile(n, <<"R","a","t","e","\n","1","\n">>)>>
    /\ file_idx = 1
    /\ gen_pc = "loop"
    /\ sheets_processed = 0
    /\ gen_wb = <<>>
    /\ gen_wb0 = gen_wb
    /\ gstr1_json = <<>>
    /\ RunIdle
    /\ StoreIdle

SpecName == InitName /\ [][NextGen]_vars

\* the tokens, the more specific before the generic, with their categories
Priority ==
    <<<<NameTok.HSN, "hsn">>, <<NameTok.B2B, "b2b">>, <<NameTok.B2CL, "b2cl">>,
      <<NameTok.B2CS, "b2cs">>, <<NameTok.EXP, "export">>,
      <<NameTok.EXEMP, "Nil_exempt_NonGST">>, <<NameTok.CDNUR, "cdnur">>,
      <<NameTok.CDNR, "cdnr">>, <<NameTok.ATADJ, "adv_tax_adjusted">>,
      <<NameTok.AT, "adv_tax">>, <<NameTok.DOC, "Docs_issued">>>>

\* the upper-cased name of the only file, and the tokens that occur in it
hint == str_upper(csv_files[1].name)
occurring == {i \in 1..Len(Priority) : str_in(Priority[i][1], hint)}

\* the category the file went to: the sheet that received its rows, "" when
\* the file was skipped
detected == IF gen_wb = <<>> THEN "" ELSE CHOOSE n \in DOMAIN gen_wb : TRUE

\* C12: the file goes to the category of the first token, in the priority
\* order, that occurs in its upper-cased name; a name with ATADJ never goes to
\* adv_tax, a name with CDNUR never goes to cdnr, and the file is skipped
\* exactly when no token occurs.
C12_FirstTokenWins ==
    (gen_pc # "idle" /\ Len(csv_files) = 1 /\ file_idx = 2) =>
        /\ IF occurring = {} THEN detected = ""
           ELSE detected = Priority[Min(occurring)][2]
        /\ detected = "" <=> occurring = {}
        /\ sheets_processed = (IF occurring = {} THEN 0 ELSE 1)
        /\ str_in(NameTok.ATADJ, hint) => detected # "adv_tax"
        /\ str_in(NameTok.CDNUR, hint) => detected # "cdnr"

\* a name holding both CDNR and cdnur went to cdnur
C12_Witness ==
    /\ gen_pc # "idle" /\ Len(csv_files) = 1 /\ file_idx = 2
    /\ csv_files[1].name = NameTok.CDNR \o <<"_","c","d","n","u","r",".","c","s","v">>
    /\ detected = "cdnur"

(***************************************************************************)
(* Calls of generate_gstr1_excel with one b2b file, varying its text       *)
(***************************************************************************)
MaxText == 4    \* most characters of the text

Texts == UNION {[1..n -> {Ch.BOM, "a", ",", "\n", "\"", "\r"}] : n \in 0..MaxText}

InitParse ==
    /\ \E content \in Texts : csv_files = <<CsvFile(Sample.B2BName, content)>>
    /\ file_idx = 1
    /\ gen_pc = "loop"
    /\ sheets_processed = 0
    /\ gen_wb = [b2b |-> <<header_row("b2b")>>]
    /\ gen_wb0 = gen_wb
    /\ gstr1_json = <<>>
    /\ RunIdle
    /\ StoreIdle

SpecParse == InitParse /\ [][NextGen]_vars

\* the text of the only file, what parsing it gives, and whether the loop
\* has passed the file
content_read == csv_files[1].content
parsed == parse_csv_content(content_read)
file_passed == Len(csv_files) = 1 /\ file_idx = 2

\* the text after one leading U+FEFF, and its first line
text_read ==
    IF content_read # <<>> /\ Head(content_read) = Ch.BOM
    THEN Tail(content_read) ELSE content_read
first_line ==
    LET ends == {i \in 1..Len(text_read) : text_read[i] = "\n"}
    IN  IF ends = {} THEN text_read ELSE SubSeq(text_read, 1, Min(ends))

\* the text has no header field: nothing before its first line end
no_header_fields == \A i \in 1..Len(first_line) : first_line[i] \in {"\n", "\r"}

\* the text is one unquoted header line and nothing else
header_only ==
    /\ ~no_header_fields
    /\ first_line = text_read
    /\ \A i \in 1..Len(text_read) : text_read[i] \notin {"\"", "\r"}

\* C13 as stated: a text without header fields makes the parse fail.
C13_ZeroColumnsFail ==
    (file_passed /\ no_header_fields) => parsed.raised

\* C13: a text without header fields parses to the empty sequence without
\* error, as does a header with an empty body, and either file is passed over
\* leaving the workbook as it was; after one leading U+FEFF is dropped, no
\* field name of a text holding no other U+FEFF contains it.
C13_ZeroColumnsEmpty ==
    file_passed =>
        /\ (no_header_fields \/ header_only) => parsed = Returned(<<>>)
        /\ (parsed.raised \/ parsed.value = <<>>) =>
              /\ gen_pc # "raised"
              /\ sheets_processed = 0
              /\ gen_wb = [b2b |-> <<header_row("b2b")>>]
        /\ (~parsed.raised /\ \A i \in 1..Len(text_read) : text_read[i] # Ch.BOM) =>
              \A r \in 1..Len(parsed.value) : \A name \in DOMAIN parsed.value[r] :
                  \A i \in 1..Len(name) : name[i] # Ch.BOM

\* a text whose first line is blank and whose second line holds a name was
\* passed over without an error
C13_Witness ==
    /\ file_passed
    /\ content_read = <<"\n","a",",","a">>
    /\ parsed = Returned(<<>>)
    /\ gen_pc = "loop"
    /\ sheets_processed = 0

(***************************************************************************)
(* json_engine.py: generate_gstr1_json                                     *)
(***************************************************************************)
\* the header tokens generate_gstr1_json looks for and the texts it writes
JTok ==
    [GSTIN |-> <<"G","S","T","I","N">>, INVOICE_NUMBER |-> <<"I","N","V","O","I","C","E"," ","N","U","M","B","E","R">>,
     INVOICE_NO |-> <<"I","N","V","O","I","C","E"," ","N","O">>, INVOICE_DATE |-> <<"I","N","V","O","I","C","E"," ","D","A","T","E">>,
     DATE |-> <<"D","A","T","E">>, INVOICE_VALUE |-> <<"I","N","V","O","I","C","E"," ","V","A","L","U","E">>,
     PLACE_OF_SUPPLY |-> <<"P","L","A","C","E"," ","O","F"," ","S","U","P","P","L","Y">>, REVERSE_CHARGE |-> <<"R","E","V","E","R","S","E"," ","C","H","A","R","G","E">>,
     RCM |-> <<"R","C","M">>, INVOICE_TYPE |-> <<"I","N","V","O","I","C","E"," ","T","Y","P","E">>, RATE |-> <<"R","A","T","E">>,
     GSTPCT |-> <<"G","S","T","%">>, TAXABLE_VALUE |-> <<"T","A","X","A","B","L","E"," ","V","A","L","U","E">>, IGST |-> <<"I","G","S","T">>,
     CGST |-> <<"C","G","S","T">>, SGST |-> <<"S","G","S","T">>, CESS |-> <<"C","E","S","S">>, TYPE |-> <<"T","Y","P","E">>,
     HSN |-> <<"H","S","N">>, DESCRIPTION |-> <<"D","E","S","C","R","I","P","T","I","O","N">>, UQC |-> <<"U","Q","C">>,
     QUANTITY |-> <<"Q","U","A","N","T","I","T","Y">>, TOTAL_VALUE |-> <<"T","O","T","A","L"," ","V","A","L","U","E">>,
     UNK |-> <<"U","N","K">>, Y |-> <<"Y">>, N |-> <<"N">>, R |-> <<"R">>, OE |-> <<"O","E">>,
     INTER |-> <<"I","N","T","E","R">>, INTRA |-> <<"I","N","T","R","A">>, Goods |-> <<"G","o","o","d","s">>, OTH |-> <<"O","T","H">>]

\* next((i for i, h in enumerate(head) if t in h or ...), None) over the
\* upper-cased header texts; columns are counted from 1 and 0 is None
idx_of(ws, tokens) ==
    first_of(UNION {cols_with(header_texts(ws), t) : t \in tokens}, 0)

\* the first two decimals of a float, as hundredths
hundredths(decimals) ==
    digits_value(SubSeq(decimals \o <<"0", "0">>, 1, 2), 0)

\* clean_val of generate_gstr1_json, in hundredths: 0.0 for None and for a
\* text float() refuses (the texts drawn are signed decimals or no numbers)
json_clean_val(v) ==
    LET text == str_strip(str_remove(str(v), ","))
        body == IF text # <<>> /\ Head(text) \in {"-", "+"} THEN Tail(text) ELSE text
        amount == to_float(body)
        value == 100 * amount.n + hundredths(amount.s)
    IN  CASE v.k = "none" -> 0
          [] v.k = "num" -> 100 * v.n
          [] v.k = "float" -> 100 * v.n + hundredths(v.s)
          [] OTHER -> IF ~is_number_text(body) THEN 0
                      ELSE IF Head(text) = "-" THEN 0 - value ELSE value

\* s.split('-')[0].strip()
first_part(s) ==
    LET hyphens == {i \in 1..Len(s) : s[i] = "-"}
    IN  str_strip(IF hyphens = {} THEN s ELSE SubSeq(s, 1, Min(hyphens) - 1))

\* clean_val(row[idx]) if idx is not None else 0.0
amount_at(ws, r, idx) == IF idx # 0 THEN json_clean_val(cell(ws, r, idx)) ELSE 0

\* the tokens of the column searches of the three sections
json_tokens ==
    [gstin |-> {JTok.GSTIN},
     inv_no |-> {JTok.INVOICE_NUMBER, JTok.INVOICE_NO},
     inv_dt |-> {JTok.INVOICE_DATE, JTok.DATE},
     inv_val |-> {JTok.INVOICE_VALUE},
     pos |-> {JTok.PLACE_OF_SUPPLY},
     rcm |-> {JTok.REVERSE_CHARGE, JTok.RCM},
     rate |-> {JTok.RATE, JTok.GSTPCT},
     tax_val |-> {JTok.TAXABLE_VALUE},
     i |-> {JTok.IGST}, c |-> {JTok.CGST}, s |-> {JTok.SGST}, cess |-> {JTok.CESS},
     typ |-> {JTok.TYPE}, hsn |-> {JTok.HSN}, desc |-> {JTok.DESCRIPTION},
     uqc |-> {JTok.UQC}, qty |-> {JTok.QUANTITY}, val |-> {JTok.TOTAL_VALUE}]

\* the column a search finds in a sheet, and the columns of all searches
json_col(ws, name) == idx_of(ws, json_tokens[name])

json_columns(ws) ==
    [gstin |-> json_col(ws, "gstin"), inv_no |-> json_col(ws, "inv_no"),
     inv_dt |-> json_col(ws, "inv_dt"), inv_val |-> json_col(ws, "inv_val"),
     pos |-> json_col(ws, "pos"), rcm |-> json_col(ws, "rcm"),
     rate |-> json_col(ws, "rate"), tax_val |-> json_col(ws, "tax_val"),
     i |-> json_col(ws, "i"), c |-> json_col(ws, "c"), s |-> json_col(ws, "s"),
     cess |-> json_col(ws, "cess"), typ |-> json_col(ws, "typ"),
     hsn |-> json_col(ws, "hsn"), desc |-> json_col(ws, "desc"),
     uqc |-> json_col(ws, "uqc"), qty |-> json_col(ws, "qty"),
     val |-> json_col(ws, "val")]

\* a numbering that gives every item the number 1
item_num_one(itms) == 1

\* "num": len(b2b_data[g][inv_no]["itms"]) + 1
item_num(itms) == Len(itms) + 1

\* g and inv_no of row r:  str(row[gstin_idx]).strip().upper()  and
\* str(row[inv_no_idx]).strip(), "UNK" without an invoice number column
ctin_of(ws, cols, r) == str_upper(str_strip(str(cell(ws, r, cols.gstin))))

inum_of(ws, cols, r) ==
    IF cols.inv_no = 0 THEN JTok.UNK ELSE str_strip(str(cell(ws, r, cols.inv_no)))

\* if g not in b2b_data: b2b_data[g] = {}
with_ctin(b2b_data, g) ==
    IF \E i \in 1..Len(b2b_data) : b2b_data[i].ctin = g THEN b2b_data
    ELSE Append(b2b_data, [ctin |-> g, inv |-> <<>>])

\* inv_no not in b2b_data[g]
is_new(b2b_data, g, inv_no) ==
    \A i \in 1..Len(b2b_data) :
        b2b_data[i].ctin = g =>
            \A j \in 1..Len(b2b_data[i].inv) : b2b_data[i].inv[j].inum # inv_no

\* "rchrg": "Y" if str(row[rcm_idx]).upper().startswith('Y') else "N"
rchrg_of(text) == IF text # <<>> /\ Head(text) = "Y" THEN JTok.Y ELSE JTok.N

\* the invoice opened at the first row of inv_no
invoice_of(ws, cols, r, inv_no) ==
    [inum |-> inv_no,
     idt |-> IF cols.inv_dt # 0 THEN str(cell(ws, r, cols.inv_dt)) ELSE <<>>,
     val |-> amount_at(ws, r, cols.inv_val),
     pos |-> IF cols.pos # 0 THEN first_part(str(cell(ws, r, cols.pos))) ELSE <<>>,
     rchrg |-> rchrg_of(str_upper(str(cell(ws, r, cols.rcm)))),
     inv_typ |-> JTok.R,
     itms |-> <<>>]

\* if inv_no not in b2b_data[g]: b2b_data[g][inv_no] = {...}
with_invoice(invs, invoice) ==
    IF \E j \in 1..Len(invs) : invs[j].inum = invoice.inum THEN invs
    ELSE Append(invs, invoice)

\* the item of row r, after the items the invoice has
item_of(ws, cols, r, itms) ==
    [num |-> item_num(itms),
     itm_det |-> [rt |-> amount_at(ws, r, cols.rate),
                  txval |-> amount_at(ws, r, cols.tax_val),
                  iamt |-> amount_at(ws, r, cols.i),
                  camt |-> amount_at(ws, r, cols.c),
                  samt |-> amount_at(ws, r, cols.s),
                  csamt |-> amount_at(ws, r, cols.cess)]]

\* b2b_data[g][inv_no]["itms"].append(item)
with_item(invs, ws, cols, r, inv_no) ==
    [j \in 1..Len(invs) |->
        IF invs[j].inum = inv_no
        THEN [invs[j] EXCEPT !.itms = Append(@, item_of(ws, cols, r, @))]
        ELSE invs[j]]

\* the invoice and the item of row r put under g
b2b_put(b2b_data, ws, cols, r, g, inv_no) ==
    [i \in 1..Len(b2b_data) |->
        IF b2b_data[i].ctin = g
        THEN [b2b_data[i] EXCEPT
                 !.inv = with_item(with_invoice(@, invoice_of(ws, cols, r, inv_no)),
                                   ws, cols, r, inv_no)]
        ELSE b2b_data[i]]

\* the body of the b2b row loop for row r: b2b_data after it, or TypeError
\* from row[rcm_idx] when a new invoice is opened and there is no such column
b2b_row(b2b_data, ws, cols, r) ==
    IF ~truthy(cell(ws, r, cols.gstin)) \/ ctin_of(ws, cols, r) = <<>>
    THEN Returned(b2b_data)
    ELSE IF is_new(b2b_data, ctin_of(ws, cols, r), inum_of(ws, cols, r)) /\ cols.rcm = 0
    THEN Raised
    ELSE Returned(b2b_put(with_ctin(b2b_data, ctin_of(ws, cols, r)), ws, cols, r,
                          ctin_of(ws, cols, r), inum_of(ws, cols, r)))

\* for row in ws.iter_rows(min_row=2, values_only=True) of the b2b section
RECURSIVE b2b_rows(_, _, _, _)
b2b_rows(b2b_data, ws, cols, r) ==
    IF r > max_row(ws) \/ Len(ws) < 2 THEN Returned(b2b_data)
    ELSE LET one == b2b_row(b2b_data, ws, cols, r)
         IN  IF one.raised THEN Raised ELSE b2b_rows(one.value, ws, cols, r + 1)

\* key = (pos, typ, rt) of row r of the b2cs sheet
b2cs_key(ws, cols, r) ==
    [pos |-> IF truthy(cell(ws, r, cols.pos))
             THEN first_part(str(cell(ws, r, cols.pos))) ELSE <<>>,
     typ |-> IF cols.typ # 0 /\ truthy(cell(ws, r, cols.typ))
             THEN str_upper(str(cell(ws, r, cols.typ))) ELSE JTok.OE,
     rt |-> amount_at(ws, r, cols.rate)]

\* the key of a group
key_of(group) == [pos |-> group.pos, typ |-> group.typ, rt |-> group.rt]

\* if key not in b2cs_grouped: b2cs_grouped[key] = {"txval": 0.0, "csamt": 0.0}
with_key(b2cs_grouped, key) ==
    IF \E i \in 1..Len(b2cs_grouped) : key_of(b2cs_grouped[i]) = key THEN b2cs_grouped
    ELSE Append(b2cs_grouped, [pos |-> key.pos, typ |-> key.typ, rt |-> key.rt,
                               txval |-> 0, csamt |-> 0])

\* b2cs_grouped[key]["txval"] += ...; b2cs_grouped[key]["csamt"] += ...
b2cs_add(b2cs_grouped, key, txval, csamt) ==
    [i \in 1..Len(b2cs_grouped) |->
        IF key_of(b2cs_grouped[i]) = key
        THEN [b2cs_grouped[i] EXCEPT !.txval = @ + txval, !.csamt = @ + csamt]
        ELSE b2cs_grouped[i]]

\* the body of the b2cs row loop for row r
b2cs_row(b2cs_grouped, ws, cols, r) ==
    b2cs_add(with_key(b2cs_grouped, b2cs_key(ws, cols, r)), b2cs_key(ws, cols, r),
             amount_at(ws, r, cols.tax_val), amount_at(ws, r, cols.cess))

RECURSIVE b2cs_rows(_, _, _, _)
b2cs_rows(b2cs_grouped, ws, cols, r) ==
    IF r > max_row(ws) \/ Len(ws) < 2 THEN b2cs_grouped
    ELSE b2cs_rows(b2cs_row(b2cs_grouped, ws, cols, r), ws, cols, r + 1)

\* "sply_ty": "INTER" if (gstin and pos != gstin[:2]) else "INTRA"
sply_ty(gstin, pos) ==
    IF gstin # <<>> /\ pos # SubSeq(gstin, 1, Min({2, Len(gstin)}))
    THEN JTok.INTER ELSE JTok.INTRA

\* the entry of a group in gstr1_json["b2cs"]
b2cs_entry(gstin, group) ==
    [sply_ty |-> sply_ty(gstin, group.pos), pos |-> group.pos, rt |-> group.rt,
     txval |-> group.txval, csamt |-> group.csamt, typ |-> group.typ]

\* the cell of row r in column idx as a text, or the default without such a
\* column or without a value
text_or(ws, r, idx, default) ==
    IF idx # 0 /\ truthy(cell(ws, r, idx)) THEN str(cell(ws, r, idx)) ELSE default

\* the entry of row r of the hsn sheet; "num" is the position of the row
\* below the header
hsn_entry(ws, cols, r) ==
    [num |-> r - 1,
     hsn_sc |-> str_strip(str(cell(ws, r, cols.hsn))),
     desc |-> IF cols.desc # 0 /\ truthy(cell(ws, r, cols.desc))
              THEN SubSeq(text_or(ws, r, cols.desc, <<>>), 1,
                          Min({30, Len(text_or(ws, r, cols.desc, <<>>))}))
              ELSE JTok.Goods,
     uqc |-> IF cols.uqc # 0 /\ truthy(cell(ws, r, cols.uqc))
             THEN first_part(str(cell(ws, r, cols.uqc))) ELSE JTok.OTH,
     qty |-> amount_at(ws, r, cols.qty),
     val |-> amount_at(ws, r, cols.val),
     txval |-> amount_at(ws, r, cols.tax_val),
     iamt |-> amount_at(ws, r, cols.i),
     camt |-> amount_at(ws, r, cols.c),
     samt |-> amount_at(ws, r, cols.s),
     csamt |-> amount_at(ws, r, cols.cess)]

\* the rows of the hsn sheet with a code
hsn_coded(ws, cols) ==
    {r \in 2..Len(ws) :
        truthy(cell(ws, r, cols.hsn)) /\ str_strip(str(cell(ws, r, cols.hsn))) # <<>>}

\* the k-th row of a set of rows, in sheet order
kth(rows, k) == CHOOSE r \in rows : Cardinality({q \in rows : q < r}) = k - 1

\* hsn_list: the entries of the rows with a code, rows without one counted
\* in "num"
hsn_data(ws, cols) ==
    [k \in 1..Cardinality(hsn_coded(ws, cols)) |->
        hsn_entry(ws, cols, kth(hsn_coded(ws, cols), k))]

\* sheet  name  is in the workbook and has the column of the search  col
has_column(book, name, col) ==
    name \in DOMAIN book /\ json_col(book[name], col) # 0

\* gstr1_json with the sections made: their names in  keys, amounts in
\* hundredths
gstr1_json_of(book, gstin, fp, b2b, b2cs_grouped) ==
    [gstin |-> gstin, fp |-> fp,
     keys |-> {name \in {"b2b"} : has_column(book, "b2b", "gstin")}
              \cup {name \in {"b2cs"} : has_column(book, "b2cs", "pos")}
              \cup {name \in {"hsn"} : has_column(book, "hsn", "hsn")},
     b2b |-> b2b,
     b2cs |-> [i \in 1..Len(b2cs_grouped) |-> b2cs_entry(gstin, b2cs_grouped[i])],
     hsn |-> IF has_column(book, "hsn", "hsn")
             THEN hsn_data(book["hsn"], json_columns(book["hsn"])) ELSE <<>>]

\* the b2b section: b2b_data, or the exception of its row loop
b2b_section(book) ==
    IF has_column(book, "b2b", "gstin")
    THEN b2b_rows(<<>>, book["b2b"], json_columns(book["b2b"]), 2)
    ELSE Returned(<<>>)

\* the b2cs section: b2cs_grouped
b2cs_section(book) ==
    IF has_column(book, "b2cs", "pos")
    THEN b2cs_rows(<<>>, book["b2cs"], json_columns(book["b2cs"]), 2)
    ELSE <<>>

\* the dictionary once the b2b section is through
gstr1_json_after(book, gstin, fp, b2b) ==
    IF b2b.raised THEN Raised
    ELSE Returned(gstr1_json_of(book, gstin, fp, b2b.value, b2cs_section(book)))

\* generate_gstr1_json(wb, gstin, fp)
generate_gstr1_json(book, gstin, fp) ==
    gstr1_json_after(book, gstin, fp, b2b_section(book))

\* the filer identifiers and the period a projection is asked for
Filers == {<<>>, Sample.GstinValid, <<"2","7","B","B","B","B","B","1","1","1","1","B","1","Z","5">>}

\* generate_gstr1_json over the workbook the assembler saved
GenerateJson ==
    /\ gen_pc = "saved"
    /\ \E gstin \in Filers :
          \E made \in {generate_gstr1_json(gen_wb, gstin, <<"0","1","2","0","2","4">>)} :
              /\ gen_pc' = IF made.raised THEN "json_raised" ELSE "projected"
              /\ gstr1_json' = made.value
    /\ UNCHANGED <<csv_files, file_idx, sheets_processed, gen_wb, gen_wb0,
                   runVars, storeVars>>

NextAsm ==
    \/ NextGen
    \/ GenerateJson

(***************************************************************************)
(* Calls of generate_gstr1_excel over template sheets                      *)
(***************************************************************************)
MaxBlank == 2    \* most stray blank rows at the end of a sheet

\* a row of cells that exist and hold nothing
blank_row(width) == [c \in 1..width |-> None]

\* b2cs sheets of the template: the header, data rows, stray blank rows
B2csTemplates ==
    {<<header_row("b2cs")>> \o data \o [r \in 1..n |-> blank_row(6)] :
        data \in {<<>>, <<<<Txt(Lit.OE), Txt(Sample.PosMH), Num(5), Num(100), None, None>>>>},
        n \in 0..MaxBlank}

\* nil/exempt sheets of the template: the mapped columns and a Total column;
\* descriptions as typed and with padding
ExemptTemplates ==
    {<<header_row("Nil_exempt_NonGST") \o <<Txt(<<"T","o","t","a","l">>)>>,
       <<Txt(nil), None, None, None, Num(0)>>,
       <<Txt(<<"E","x","e","m","p","t">>), Num(5), None, Num(2), Num(7)>>>> :
        nil \in {<<"N","i","l">>, <<" ","N","i","l"," ">>}}

AsmWorkbooks ==
    {[b2b |-> <<header_row("b2b")>>, b2cs |-> b, Nil_exempt_NonGST |-> e] :
        b \in B2csTemplates, e \in ExemptTemplates}

AsmFiles ==
    {CsvFile(<<"b","2","c","s",".","c","s","v">>, <<"P","l","a","c","e"," ","O","f"," ","S","u","p","p","l","y",",","R","a","t","e",",","T","a","x","a","b","l","e"," ","V","a","l","u","e","\n","2","9","-","K","a",",","1","8",",","1","0","0","\n">>),
     CsvFile(<<"b","2","c","s",".","c","s","v">>, <<"T","y","p","e",",","P","l","a","c","e"," ","O","f"," ","S","u","p","p","l","y",",","R","a","t","e","\n","O","E",",","2","7","-","M","h",",","5","\n","O","E",","," ","2","9","-"," ","K","a"," ",",","1","8",".","5","0","\n">>),
     CsvFile(<<"b","2","c","s",".","c","s","v">>, <<"X","\n","1","\n">>),
     CsvFile(<<"e","x","e","m","p",".","c","s","v">>, <<"D","e","s","c","r","i","p","t","i","o","n",",","N","i","l"," ","R","a","t","e","d"," ","S","u","p","p","l","i","e","s","\n","N","i","l",",","1","0","0","\n">>),
     CsvFile(<<"e","x","e","m","p",".","c","s","v">>,
             <<"D","e","s","c","r","i","p","t","i","o","n",",","N","i","l"," ","R","a","t","e","d"," ","S","u","p","p","l","i","e","s",",","N","o","n","-","G","S","T"," ","s","u","p","p","l","i","e","s","\n","O","t","h","e","r",",","5",",","5","\n","E","x","e","m","p","t",",",",","x","\n">>),
     CsvFile(Sample.B2BName,
             <<"G","S","T","I","N","/","U","I","N"," ","o","f"," ","R","e","c","i","p","i","e","n","t",",","I","n","v","o","i","c","e"," ","N","u","m","b","e","r",",","I","n","v","o","i","c","e"," ","d","a","t","e",",","R","e","v","e","r","s","e"," ","C","h","a","r","g","e",",","I","n","v","o","i","c","e"," ","T","y","p","e","\n","2","9","A","A","A","A","A","0","0","0","0","A","1","Z","5",",","A","1",",","5","-","J","a","n","-","2","4",",","Y",",","R","e","g","u","l","a","r"," ","B","2","B","\n">>)}

InitAsm ==
    /\ csv_files \in SeqsUpTo(AsmFiles, MaxFiles)
    /\ file_idx = 1
    /\ gen_pc = "loop"
    /\ sheets_processed = 0
    /\ gen_wb \in AsmWorkbooks
    /\ gen_wb0 = gen_wb
    /\ gstr1_json = <<>>
    /\ RunIdle
    /\ StoreIdle

SpecAsm == InitAsm /\ [][NextAsm]_vars

\* the records the files of a category hold, in the order of the files
RECURSIVE records_of(_, _)
records_of(files, sheet_name) ==
    IF files = <<>> THEN <<>>
    ELSE (IF get_sheet_name_from_file(Head(files).name) = sheet_name
             /\ ~parse_csv_content(Head(files).content).raised
          THEN parse_csv_content(Head(files).content).value ELSE <<>>)
         \o records_of(Tail(files), sheet_name)

\* a row of a sheet holds a value in some cell
filled(ws, r) == \E c \in 1..max_column(ws) : cell(ws, r, c) # None

\* C11 as stated: once the files are written, the header row of the b2cs
\* sheet is as it was, the rows down to its last non-empty row are as they
\* were, and the records of the b2cs files fill the rows right below that row:
\* no blank row lies between, whatever stray blank rows the sheet ended in.
C11_NoInteriorBlankRows ==
    gen_pc = "saved" =>
        LET ws0 == gen_wb0["b2cs"]
            ws == gen_wb["b2cs"]
            last == Max({r \in 1..Len(ws0) : filled(ws0, r)})
            n == Len(records_of(csv_files, "b2cs"))
        IN  /\ ws[1] = ws0[1]
            /\ \A r \in 1..last : ws[r] = ws0[r]
            /\ {r \in 1..Len(ws) : filled(ws, r)} = 1..(last + n)

\* the stripped description of row r of the nil/exempt sheet as the call
\* found it, and the records that go to that row
desc_of(r) == str_strip(str(cell(gen_wb0["Nil_exempt_NonGST"], r, 1)))
matching(r) ==
    {n \in 1..Len(records_of(csv_files, "Nil_exempt_NonGST")) :
        LET row_data == records_of(csv_files, "Nil_exempt_NonGST")[n]
        IN  str_strip(str(get(row_data, Csv.Description))) = desc_of(r)}

\* the columns of the nil/exempt sheet whose header is an Excel name of the
\* mapping
mapped_columns ==
    {c \in 1..max_column(gen_wb0["Nil_exempt_NonGST"]) :
        \E i \in 1..Len(STANDARD_MAPPINGS["Nil_exempt_NonGST"]) :
            str_strip(str(cell(gen_wb0["Nil_exempt_NonGST"], 1, c)))
                = STANDARD_MAPPINGS["Nil_exempt_NonGST"][i][2]}

\* C14 as stated: the nil/exempt sheet keeps its rows and its description
\* column, a record whose description is the text of no description cell
\* changes nothing, and a matching record changes mapped columns of its row.
C14_DescriptionColumnKept ==
    gen_pc = "saved" =>
        LET ws0 == gen_wb0["Nil_exempt_NonGST"]
            ws == gen_wb["Nil_exempt_NonGST"]
            texts == {get(records_of(csv_files, "Nil_exempt_NonGST")[n], Csv.Description) :
                         n \in 1..Len(records_of(csv_files, "Nil_exempt_NonGST"))}
        IN  /\ Len(ws) = Len(ws0)
            /\ \A r \in 1..Len(ws0) : cell(ws, r, 1) = cell(ws0, r, 1)
            /\ \A r \in 1..Len(ws0) : cell(ws0, r, 1) \notin texts => ws[r] = ws0[r]
            /\ \A r \in 1..Len(ws0) : \A c \in 1..max_column(ws0) :
                  c \notin mapped_columns => cell(ws, r, c) = cell(ws0, r, c)

\* C14: the nil/exempt sheet keeps its number of rows and its header row; a
\* row whose description, stripped, is the stripped description of no record
\* keeps every cell; any other row changes in mapped columns only, and its
\* description cell is either as it was or holds its own stripped text.
C14_MatchModeCreatesNoRow ==
    gen_pc = "saved" =>
        LET ws0 == gen_wb0["Nil_exempt_NonGST"]
            ws == gen_wb["Nil_exempt_NonGST"]
        IN  /\ Len(ws) = Len(ws0)
            /\ ws[1] = ws0[1]
            /\ \A r \in 2..Len(ws0) : matching(r) = {} => ws[r] = ws0[r]
            /\ \A r \in 2..Len(ws0) :
                  /\ Len(ws[r]) = Len(ws0[r])
                  /\ \A c \in 1..max_column(ws0) :
                        c \notin mapped_columns => cell(ws, r, c) = cell(ws0, r, c)
                  /\ cell(ws, r, 1) \in {cell(ws0, r, 1), exempt_value(Txt(desc_of(r)))}

\* a record went to the row of a padded description and wrote its amount
\* there, and a record without a row was dropped
C14_Witness ==
    /\ gen_pc = "saved"
    /\ Len(records_of(csv_files, "Nil_exempt_NonGST")) = 3
    /\ cell(gen_wb0["Nil_exempt_NonGST"], 2, 1) = Txt(<<" ","N","i","l"," ">>)
    /\ cell(gen_wb["Nil_exempt_NonGST"], 2, 1) = Txt(<<"N","i","l">>)
    /\ cell(gen_wb["Nil_exempt_NonGST"], 2, 2) = Float(100, <<>>)
    /\ cell(gen_wb["Nil_exempt_NonGST"], 3, 4) = Txt(<<"x">>)
    /\ Len(gen_wb["Nil_exempt_NonGST"]) = 3

\* a place of supply of the form <code>-<name>: two digits and a hyphen
coded(text) ==
    Len(text) > 3 /\ text[1] \in Digit /\ text[2] \in Digit /\ text[3] = "-"

\* C17 as stated: once the workbook the assembler saved is projected for a
\* filer, every consumer group holding a record that came from a b2cs file
\* with a place of supply <code>-<name> is flagged INTER exactly when that
\* code differs from the first two characters of the filer identifier, and
\* INTRA otherwise.
C17_FlagFollowsJurisdictionCode ==
    (gen_pc = "projected" /\ gstr1_json.gstin # <<>>) =>
        \A n \in 1..Len(records_of(csv_files, "b2cs")) :
            LET place == get(records_of(csv_files, "b2cs")[n], Xl.Place_Of_Supply)
                pos == first_part(str(transformed(Xl.Place_Of_Supply, place)))
                groups == {i \in 1..Len(gstr1_json.b2cs) : gstr1_json.b2cs[i].pos = pos}
            IN  (place.k = "str" /\ coded(place.s)) =>
                    /\ groups # {}
                    /\ \A i \in groups :
                          gstr1_json.b2cs[i].sply_ty =
                              IF SubSeq(place.s, 1, 2) # SubSeq(gstr1_json.gstin, 1, 2)
                              THEN JTok.INTER ELSE JTok.INTRA

(***************************************************************************)
(* Calls of generate_gstr1_json over workbooks with a b2b sheet            *)
(***************************************************************************)
\* the header texts of a b2b sheet, and the layouts drawn: every column, no
\* invoice number column, no reverse charge column
JsonHeader ==
    [gstin |-> Txt(<<"G","S","T","I","N","/","U","I","N"," ","o","f"," ","R","e","c","i","p","i","e","n","t">>), inum |-> Txt(<<"I","n","v","o","i","c","e"," ","N","u","m","b","e","r">>),
     idt |-> Txt(<<"I","n","v","o","i","c","e"," ","d","a","t","e">>), val |-> Txt(<<"I","n","v","o","i","c","e"," ","V","a","l","u","e">>),
     pos |-> Txt(<<"P","l","a","c","e"," ","O","f"," ","S","u","p","p","l","y">>), rchrg |-> Txt(<<"R","e","v","e","r","s","e"," ","C","h","a","r","g","e">>),
     rt |-> Txt(<<"R","a","t","e">>), txval |-> Txt(<<"T","a","x","a","b","l","e"," ","V","a","l","u","e">>)]

JsonLayouts ==
    {<<"gstin", "inum", "idt", "val", "pos", "rchrg", "rt", "txval">>,
     <<"gstin", "idt", "val", "pos", "rchrg", "rt", "txval">>,
     <<"gstin", "inum", "idt", "val", "pos", "rt", "txval">>}

\* the data rows drawn: two counterparties, one of them also written padded
\* and in lower case, two invoice numbers, one of them padded, two sets of
\* amounts, and a row without a counterparty
JsonRow(gstin, inum, amounts) ==
    [gstin |-> gstin, inum |-> Txt(inum), idt |-> Txt(<<"0","5","-","J","a","n","-","2","0","2","4">>), pos |-> Txt(Sample.PosKa29),
     val |-> IF amounts = 1 THEN Num(100) ELSE Txt(<<"1",",","2","0","0",".","5","0">>),
     rchrg |-> IF amounts = 1 THEN Txt(<<"Y">>) ELSE Txt(<<"N">>),
     rt |-> IF amounts = 1 THEN Num(18) ELSE Txt(<<"5">>),
     txval |-> IF amounts = 1 THEN Num(100) ELSE Float(1000, <<"5">>)]

JsonRows ==
    {JsonRow(Txt(Sample.GstinValid), <<"A","1">>, 1),
     JsonRow(Txt(Sample.GstinValid), <<"A","1">>, 2),
     JsonRow(Txt(Sample.GstinValid), <<" ","A","2">>, 1),
     JsonRow(Txt(Sample.GstinPadded), <<"A","1">>, 2),
     JsonRow(Txt(<<"2","7","B","B","B","B","B","1","1","1","1","B","1","Z","5">>), <<"A","1">>, 1),
     JsonRow(None, <<"A","1">>, 1)}

JsonSheets ==
    {[r \in 1..(Len(rows) + 1) |->
         [c \in 1..Len(layout) |->
             IF r = 1 THEN JsonHeader[layout[c]] ELSE rows[r - 1][layout[c]]]] :
        layout \in JsonLayouts, rows \in SeqsUpTo(JsonRows, MaxB2B)}

InitJson ==
    /\ csv_files = <<>>
    /\ file_idx = 1
    /\ gen_pc = "saved"
    /\ sheets_processed = 0
    /\ gen_wb \in {[b2b |-> ws] : ws \in JsonSheets}
    /\ gen_wb0 = gen_wb
    /\ gstr1_json = <<>>
    /\ RunIdle
    /\ StoreIdle

SpecJson == InitJson /\ [][GenerateJson]_vars

\* the rows of a b2b sheet the projection keeps, and the rows of one invoice
kept_rows(ws, cols) ==
    {r \in 2..Len(ws) : truthy(cell(ws, r, cols.gstin)) /\ ctin_of(ws, cols, r) # <<>>}

rows_of(ws, cols, g, i) ==
    {r \in kept_rows(ws, cols) : ctin_of(ws, cols, r) = g /\ inum_of(ws, cols, r) = i}

\* C18: in a projection that was made, the b2b part has one entry per
\* counterparty identifier of the kept rows and, below it, one invoice per
\* invoice number of that counterparty's rows; the invoice's date, value,
\* place and reverse charge flag are those of the first row with that number;
\* it has one line item per row with that number, numbered 1..n in row order
\* and holding the rate and taxable value of its row.
C18_GroupedByCounterpartyThenInvoice ==
    gen_pc = "projected" =>
        LET ws == gen_wb["b2b"]
            cols == json_columns(gen_wb["b2b"])
            b2b == gstr1_json.b2b
        IN  /\ "b2b" \in gstr1_json.keys
            /\ \A a, b \in 1..Len(b2b) : b2b[a].ctin = b2b[b].ctin => a = b
            /\ {b2b[a].ctin : a \in 1..Len(b2b)} = {ctin_of(ws, cols, r) : r \in kept_rows(ws, cols)}
            /\ \A a \in 1..Len(b2b) :
                  LET inv == b2b[a].inv
                  IN  /\ \A i, j \in 1..Len(inv) : inv[i].inum = inv[j].inum => i = j
                      /\ {inv[j].inum : j \in 1..Len(inv)}
                            = {inum_of(ws, cols, r) : r \in {q \in kept_rows(ws, cols) : ctin_of(ws, cols, q) = b2b[a].ctin}}
                      /\ \A j \in 1..Len(inv) :
                            LET rows == rows_of(ws, cols, b2b[a].ctin, inv[j].inum)
                                first == Min(rows)
                            IN  /\ inv[j].idt = str(cell(ws, first, cols.inv_dt))
                                /\ inv[j].val = amount_at(ws, first, cols.inv_val)
                                /\ inv[j].pos = first_part(str(cell(ws, first, cols.pos)))
                                /\ inv[j].rchrg
                                      = IF Head(str(cell(ws, first, cols.rcm))) \in {"Y", "y"}
                                        THEN JTok.Y ELSE JTok.N
                                /\ Len(inv[j].itms) = Cardinality(rows)
                                /\ \A k \in 1..Len(inv[j].itms) :
                                      /\ inv[j].itms[k].num = k
                                      /\ inv[j].itms[k].itm_det.rt
                                            = amount_at(ws, kth(rows, k), cols.rate)
                                      /\ inv[j].itms[k].itm_det.txval
                                            = amount_at(ws, kth(rows, k), cols.tax_val)

\* a projection of two counterparties in which an invoice has two line items
\* from rows that are not neighbours and differ in invoice value
C18_Witness ==
    /\ gen_pc = "projected"
    /\ Len(gstr1_json.b2b) = 2
    /\ \E a \in 1..Len(gstr1_json.b2b) : \E j \in 1..Len(gstr1_json.b2b[a].inv) :
          LET inv == gstr1_json.b2b[a].inv[j]
              cols == json_columns(gen_wb["b2b"])
              rows == rows_of(gen_wb["b2b"], cols, gstr1_json.b2b[a].ctin, inv.inum)
          IN  /\ Len(inv.itms) = 2
              /\ inv.itms[2].num = 2
              /\ Max(rows) > Min(rows) + 1
              /\ inv.val = 10000
              /\ amount_at(gen_wb["b2b"], Max(rows), cols.inv_val) = 120050

(***************************************************************************)
(* Runs whose b2b rows are all accepted: the dashboard and the home state  *)
(***************************************************************************)
\* accepted b2b rows of 10, 2, 10 and 6 in implicit tax
DashRow(pos, tax) ==
    [gstin |-> Txt(Sample.GstinValid), party |-> Txt(Sample.PartyPlain), pos |-> pos,
     rate |-> Num(5), tax |-> Num(tax), cess |-> Num(0)]

DashRows ==
    {DashRow(Txt(Sample.PosKa29), 200), DashRow(Txt(Sample.PosMh27), 40),
     DashRow(Txt(Sample.PosMh27), 200), DashRow(None, 120)}

DashB2BSheets ==
    {sheet_of(<<"gstin", "pos", "rate", "tax">>, B2BHeader, recs) :
        recs \in SeqsUpTo(DashRows, MaxB2B)}

\* hsn sheets with a CGST column whose total is 0, 1, 5 or 6
DashHsnSheets ==
    {<<>>} \cup
    {sheet_of(<<"type", "hsn", "total", "rate", "tax", "cgst">>, HsnHeader, recs) :
        recs \in {<<HsnRow(Lit.B2B, Sample.Hsn1001, 5, 20)>>,
                  <<[HsnRow(Lit.B2B, Sample.Hsn1001, 5, 200) EXCEPT !.cgst = Num(5)]>>,
                  <<[HsnRow(Lit.B2B, Sample.Hsn1001, 5, 200) EXCEPT !.cgst = Num(5)],
                    HsnRow(Lit.B2B, Sample.Hsn99841, 18, 20)>>}}

InitDash ==
    /\ \E b2b \in DashB2BSheets, b2cs \in B2csSheets, hsn \in DashHsnSheets :
          Loaded(b2b, b2cs, hsn)
    /\ StoreIdle
    /\ GenIdle

SpecDash == InitDash /\ [][Next]_vars

\* how far half the implicit tax of bucket i is from the CGST total of the hsn
\* sheet, in two-hundredths
off_by(i) == abs(implicit_taxes_by_pos[i].tax \div 2 - dash_data["hsn"].cgst)

\* C15: when the dashboard is built and there is a bucket of implicit tax,
\* the home state is the place of exactly one bucket, and half the implicit
\* tax of no bucket is closer to the CGST total of the hsn sheet than half
\* the implicit tax of that bucket.
C15_HomeStateIsClosest ==
    (pc = "summarised" /\ implicit_taxes_by_pos # <<>>) =>
        /\ Cardinality({i \in 1..Len(implicit_taxes_by_pos) :
                           best_state = Txt(implicit_taxes_by_pos[i].pos)}) = 1
        /\ \A i, j \in 1..Len(implicit_taxes_by_pos) :
              best_state = Txt(implicit_taxes_by_pos[i].pos) => off_by(i) <= off_by(j)

\* buckets MH: 2 and KA: 10 in that order with a CGST total of 5: KA, whose
\* half is 5, is the home state
C15_Witness ==
    /\ pc = "summarised"
    /\ Len(implicit_taxes_by_pos) = 2
    /\ implicit_taxes_by_pos[1] = [pos |-> <<"M", "H">>, tax |-> in_units(2)]
    /\ implicit_taxes_by_pos[2] = [pos |-> <<"K", "A">>, tax |-> in_units(10)]
    /\ dash_data["hsn"].cgst = in_units(5)
    /\ best_state = Txt(<<"K", "A">>)

(***************************************************************************)
(* Step B over hsn sheets whose rows share one rate                        *)
(***************************************************************************)
\* donors of one code with taxable values of both signs, a donor of another
\* code and a consumer row
ShiftRows ==
    {HsnRow(Lit.B2B, Sample.Hsn1001, 5, 4),
     HsnRow(Lit.B2B, Sample.Hsn1001, 5, 0 - 1),
     HsnRow(Lit.B2B, Sample.Hsn1001, 5, 2),
     HsnRow(Lit.B2B, Sample.Hsn99841, 5, 2),
     HsnRow(Lit.B2C, Sample.Hsn1001, 5, 1)}

ShiftHsnSheets ==
    {sheet_of(<<"type", "hsn", "total", "rate", "tax", "cgst">>, HsnHeader, recs) :
        recs \in SeqsUpTo(ShiftRows, MaxHsn)}

\* b2b sheets that leave the ledgers {5: 1}, {5: 4}, {5: 6}, {5: 0, 18: 1}
\* and {18: 3, 5: 4}
ShiftB2BSheets ==
    {sheet_of(<<"gstin", "rate", "tax">>, B2BHeader, recs) :
        recs \in {<<LedgerRow(5, 1)>>,
                  <<LedgerRow(5, 4)>>,
                  <<LedgerRow(5, 4), LedgerRow(5, 2)>>,
                  <<LedgerRow(5, 0), LedgerRow(18, 1)>>,
                  <<LedgerRow(18, 3), LedgerRow(5, 4)>>}}

InitShift ==
    /\ \E b2b \in ShiftB2BSheets, hsn \in ShiftHsnSheets : Loaded(b2b, <<>>, hsn)
    /\ StoreIdle
    /\ GenIdle

SpecShift == InitShift /\ [][Next]_vars

\* the amount the shift ledger holds for a rate, 0 when it has no entry
ledger_amount(rate) ==
    LET at == {i \in 1..Len(hsn_b2b_deductions) : hsn_b2b_deductions[i].rate = rate}
    IN  IF at = {} THEN 0 ELSE hsn_b2b_deductions[Min(at)].amt

\* the rows of a type at a rate
typed_rows_at(ws, type, rate) ==
    {r \in 2..Len(ws) :
        /\ str_upper(str_strip(str(cell(ws, r, col_named(ws, Hdr.Type))))) = type
        /\ clean_val(cell(ws, r, col_named(ws, Hdr.Rate))) = rate}

\* the taxable value of the rows S
RECURSIVE tax_over(_, _)
tax_over(ws, S) ==
    IF S = {} THEN 0 ELSE hsn_tax(ws, Min(S)) + tax_over(ws, S \ {Min(S)})

\* what Step B took from the donors of a rate
moved_at(rate) ==
    tax_over(hsn_pre, typed_rows_at(hsn_pre, Lit.B2B, rate))
      - tax_over(wb["hsn"], typed_rows_at(hsn_pre, Lit.B2B, rate))

\* the donors of a rate were taken from in document order: a donor that was
\* changed has only drained donors before it
drained_in_order(rate) ==
    \A r1, r2 \in typed_rows_at(hsn_pre, Lit.B2B, rate) :
        (r1 < r2 /\ hsn_tax(wb["hsn"], r2) # hsn_tax(hsn_pre, r2))
            => hsn_tax(wb["hsn"], r1) = 0

\* the consumer rows of a rate gained what its donors lost
gained_by_consumers(rate) ==
    tax_over(wb["hsn"], typed_rows_at(wb["hsn"], Lit.B2C, rate))
      - tax_over(hsn_pre, typed_rows_at(hsn_pre, Lit.B2C, rate)) = moved_at(rate)

StepBRan == StepBDone /\ Len(hsn_pre) > 1

\* C21 as stated: for each rate of the shift ledger with an amount A > 0,
\* Step B moves exactly min(A, total taxable value of the donors at the rate)
\* from the B2B rows to the B2C rows, the donors taken in document order.
C21_MovesMinOfLedgerAndDonors ==
    StepBRan =>
        \A rate \in HsnRates :
            ledger_amount(rate) > 0 =>
                /\ moved_at(rate)
                     = Min({ledger_amount(rate),
                            tax_over(hsn_pre, typed_rows_at(hsn_pre, Lit.B2B, rate))})
                /\ gained_by_consumers(rate)
                /\ drained_in_order(rate)

\* C21: for each rate of the shift ledger with an amount A > 0, the B2C rows
\* gain what the B2B rows lose and the donors are taken in document order;
\* when no donor at the rate has a negative taxable value, the amount moved
\* is exactly min(A, total taxable value of the donors at the rate), so a
\* residual the donors cannot cover stays unmoved.
C21_MovesMinWhenDonorsNotNegative ==
    StepBRan =>
        \A rate \in HsnRates :
            ledger_amount(rate) > 0 =>
                /\ (\A r \in typed_rows_at(hsn_pre, Lit.B2B, rate) : hsn_tax(hsn_pre, r) >= 0)
                      => moved_at(rate)
                           = Min({ledger_amount(rate),
                                  tax_over(hsn_pre, typed_rows_at(hsn_pre, Lit.B2B, rate))})
                /\ gained_by_consumers(rate)
                /\ drained_in_order(rate)

\* a ledger of 6 at 5% over donors of 2 and 2: both are drained, 4 is moved
\* and the residual of 2 is not
C21_Witness ==
    /\ StepBRan
    /\ ledger_amount(5) = 6
    /\ Cardinality(typed_rows_at(hsn_pre, Lit.B2B, 5)) = 2
    /\ \A r \in typed_rows_at(hsn_pre, Lit.B2B, 5) : hsn_tax(hsn_pre, r) = 2
    /\ moved_at(5) = 4

\* a ledger of 4 at 5% over donors of 2 and 4: the first is drained and the
\* second gives only the remaining 2
C21_WitnessPartial ==
    /\ StepBRan
    /\ ledger_amount(5) = 4
    /\ \E r1, r2 \in typed_rows_at(hsn_pre, Lit.B2B, 5) :
          /\ r1 < r2
          /\ hsn_tax(hsn_pre, r1) = 2 /\ hsn_tax(wb["hsn"], r1) = 0
          /\ hsn_tax(hsn_pre, r2) = 4 /\ hsn_tax(wb["hsn"], r2) = 2


\* the rows Step B appended to the hsn sheet
cloned_rows == (Len(hsn_pre) + 1)..Len(wb["hsn"])

hsn_code(ws, r) == str(cell(ws, r, col_named(ws, Hdr.HSN)))

hsn_rate(ws, r) == clean_val(cell(ws, r, col_named(ws, Hdr.Rate)))

\* C22: Step B clones a consumer row only for a code that has no consumer row
\* at the rate, and at most once per code and rate: no cloned row has the
\* code and rate of a consumer row the sheet had before, and no two cloned
\* rows share code and rate.
C22_OneClonePerCodeAndRate ==
    StepBRan =>
        /\ \A r \in cloned_rows :
              \A rc \in typed_rows_at(hsn_pre, Lit.B2C, hsn_rate(wb["hsn"], r)) :
                  hsn_code(hsn_pre, rc) # hsn_code(wb["hsn"], r)
        /\ \A r1, r2 \in cloned_rows :
              (/\ hsn_code(wb["hsn"], r1) = hsn_code(wb["hsn"], r2)
               /\ hsn_rate(wb["hsn"], r1) = hsn_rate(wb["hsn"], r2)) => r1 = r2


\* C23: Step B leaves the totals of the other amount columns of the hsn
\* sheet unchanged: a cloned row adds nothing to the Total Value and CGST
\* columns.
C23_OtherColumnTotalsUnchanged ==
    StepBRan =>
        /\ sum_col(wb["hsn"], col_named(wb["hsn"], Hdr.Total_Value), 2)
             = sum_col(hsn_pre, col_named(hsn_pre, Hdr.Total_Value), 2)
        /\ sum_col(wb["hsn"], col_named(wb["hsn"], Hdr.CGST), 2)
             = sum_col(hsn_pre, col_named(hsn_pre, Hdr.CGST), 2)


\* the sheet is summed and has data rows but neither a CGST nor an IGST column
implicit_sheet(s_name) ==
    /\ s_name \in sheetnames
    /\ max_row(wb[s_name]) > 1
    /\ sum_columns(wb[s_name]).c = 0
    /\ sum_columns(wb[s_name]).i = 0

\* C24: the aggregation completes whichever of the summed sheets lacks the
\* tax columns: when the hsn sheet has data rows and neither a CGST nor an
\* IGST column, the dashboard is built and the implicit tax of its rows is
\* in the buckets.
C24_ImplicitHsnAggregates ==
    (pc \in {"summarised", "raised"} /\ implicit_sheet("hsn")) =>
        /\ pc = "summarised"
        /\ implicit_taxes_by_pos # <<>>


\* the sums of the explicit columns, before the implicit tax is apportioned
explicit_sums == summed_sheets(wb, sheetnames).dash

\* the buckets of the home state and those of the other places
home_buckets ==
    {i \in 1..Len(implicit_cats_by_pos) : Txt(implicit_cats_by_pos[i].pos) = best_state}

away_buckets == (1..Len(implicit_cats_by_pos)) \ home_buckets

\* the implicit gross tax of a category over the buckets S
RECURSIVE bucket_total(_, _)
bucket_total(p, S) ==
    IF S = {} THEN 0
    ELSE implicit_cats_by_pos[Min(S)].cats[p] + bucket_total(p, S \ {Min(S)})

\* the components of the dashboard are those of  pre  with the implicit tax
\* of the buckets apportioned to them
apportioned_over(pre) ==
    /\ \A p \in DOMAIN cats_zero :
          /\ dash_data[p].cgst - pre[p].cgst
               = bucket_total(p, home_buckets) \div 2
          /\ dash_data[p].sgst - pre[p].sgst
               = bucket_total(p, home_buckets) \div 2
          /\ 2 * (bucket_total(p, home_buckets) \div 2) = bucket_total(p, home_buckets)
          /\ dash_data[p].igst - pre[p].igst
               = bucket_total(p, away_buckets)
    /\ implicit_taxes_by_pos = <<>> =>
          \A p \in DashPrefixes :
              /\ dash_data[p].cgst = pre[p].cgst
              /\ dash_data[p].sgst = pre[p].sgst
              /\ dash_data[p].igst = pre[p].igst
    /\ \A p \in DashPrefixes \ DOMAIN cats_zero :
          /\ dash_data[p].cgst = pre[p].cgst
          /\ dash_data[p].sgst = pre[p].sgst
          /\ dash_data[p].igst = pre[p].igst
    /\ \A p \in DashPrefixes :
          dash_data[p].total_tax
            = dash_data[p].igst + dash_data[p].cgst + dash_data[p].sgst

\* C25: when the dashboard is built, each category with implicit buckets has
\* half the implicit gross tax of the home state added to its central and to
\* its state component and the implicit gross tax of every other place added
\* to its cross-jurisdiction component; nothing is added when there is no
\* implicit row, and nothing to the hsn components; the total tax of every
\* category is the sum of its three components.
C25_Apportionment ==
    pc = "summarised" => apportioned_over(explicit_sums)

\* a home state and another place, each with implicit tax of the b2b
\* category: half the first went to CGST and to SGST, the second to IGST
C25_Witness ==
    /\ pc = "summarised"
    /\ bucket_total("b2b", home_buckets) > 0
    /\ bucket_total("b2b", away_buckets) > 0
    /\ dash_data["b2b"].cgst = bucket_total("b2b", home_buckets) \div 2
    /\ dash_data["b2b"].igst = bucket_total("b2b", away_buckets)

(***************************************************************************)
(* The assembler over the note and large-invoice categories                *)
(***************************************************************************)
\* the header row of a category's sheet with every name as the mapping spells
\* it, padded with blanks, or in capitals
HeaderStyles == {"mapped", "padded", "capitals"}

styled_header_row(sheet_name, style) ==
    [i \in 1..Len(STANDARD_MAPPINGS[sheet_name]) |->
        Txt(CASE style = "padded" ->
                   <<" ">> \o STANDARD_MAPPINGS[sheet_name][i][2] \o <<" ">>
              [] style = "capitals" -> str_upper(STANDARD_MAPPINGS[sheet_name][i][2])
              [] OTHER -> STANDARD_MAPPINGS[sheet_name][i][2])]

NoteSheets == {"b2cl", "cdnr", "cdnur"}

NoteWorkbooks ==
    {[s \in NoteSheets |-> <<styled_header_row(s, style)>>] : style \in HeaderStyles}

NoteFiles ==
    {CsvFile(<<"c","d","n","r",".","c","s","v">>, <<"P","l","a","c","e"," ","O","f"," ","S","u","p","p","l","y",",","R","a","t","e","\n","3","3","-","T","a","m","i","l"," ","N","a","d","u",",","5","\n">>),
     CsvFile(<<"c","d","n","r",".","c","s","v">>, <<"N","o","t","e"," ","N","u","m","b","e","r",",","P","l","a","c","e"," ","O","f"," ","S","u","p","p","l","y","\n","N","1",",","G","o","a","\n">>),
     CsvFile(<<"c","d","n","u","r",".","c","s","v">>, <<"P","l","a","c","e"," ","O","f"," ","S","u","p","p","l","y",",","R","a","t","e","\n","2","9","-","K","a",",","1","8","\n">>),
     CsvFile(<<"b","2","c","l",".","c","s","v">>, <<"I","n","v","o","i","c","e"," ","N","u","m","b","e","r",",","P","l","a","c","e"," ","O","f"," ","S","u","p","p","l","y","\n","A","1",",","2","7","-","M","h","\n">>),
     CsvFile(<<"b","2","c","l",".","c","s","v">>, <<"P","l","a","c","e"," ","O","f"," ","S","u","p","p","l","y","\n"," ","7","-"," ","D","e","l","h","i","\n","9","-","\n">>),
     CsvFile(<<"n","o","t","e","s",".","c","s","v">>, <<"R","a","t","e","\n","5","\n">>)}

InitNotes ==
    /\ csv_files \in SeqsUpTo(NoteFiles, MaxFiles)
    /\ file_idx = 1
    /\ gen_pc = "loop"
    /\ sheets_processed = 0
    /\ gen_wb \in NoteWorkbooks
    /\ gen_wb0 = gen_wb
    /\ gstr1_json = <<>>
    /\ RunIdle
    /\ StoreIdle

SpecNotes == InitNotes /\ [][NextGen]_vars

\* the Excel name a category's mapping gives the place of supply
place_name(sheet_name) ==
    LET at == {i \in 1..Len(STANDARD_MAPPINGS[sheet_name]) :
                  STANDARD_MAPPINGS[sheet_name][i][1] = Xl.Place_Of_Supply}
    IN  STANDARD_MAPPINGS[sheet_name][Min(at)][2]

\* the cells the call appended under the place-of-supply header of a sheet
place_cells(sheet_name) ==
    {cell(gen_wb[sheet_name], r, c) :
        r \in (Len(gen_wb0[sheet_name]) + 1)..Len(gen_wb[sheet_name]),
        c \in {c \in 1..max_column(gen_wb0[sheet_name]) :
                  str_strip(str(cell(gen_wb0[sheet_name], 1, c))) = place_name(sheet_name)}}

\* a text that starts with digits and a hyphen
prefixed(text) == leading(text, Digit) > 0 /\ leading(text, Digit) < Len(text)
                  /\ text[leading(text, Digit) + 1] = "-"

\* C26: once the files are written, no place of supply appended to the b2cl,
\* cdnr or cdnur sheet starts with digits and a hyphen.
C26_PlacePrefixStripped ==
    gen_pc = "saved" =>
        \A s \in NoteSheets :
            \A v \in place_cells(s) : ~(v.k = "str" /\ prefixed(v.s))

\* C27: once the files are written, a header that is a mapped Excel name up
\* to letter case and surrounding blanks has received, in the row of every
\* record, the record's value for the CSV name mapped to it.
C27_HeaderMatchIgnoresCaseAndPadding ==
    gen_pc = "saved" =>
        \A s \in NoteSheets :
            \A n \in 1..Len(records_of(csv_files, s)) :
                \A i \in 1..Len(STANDARD_MAPPINGS[s]) :
                    \A c \in 1..max_column(gen_wb0[s]) :
                        (/\ str_upper(str_strip(str(cell(gen_wb0[s], 1, c))))
                              = str_upper(STANDARD_MAPPINGS[s][i][2])
                         /\ STANDARD_MAPPINGS[s][i][1]
                              \in DOMAIN records_of(csv_files, s)[n])
                            => cell(gen_wb[s], 1 + n, c) # None

(***************************************************************************)
(* The projection of workbooks with an hsn sheet                           *)
(***************************************************************************)
\* rows with a code as text and as a number, without a code, and with a
\* blank one
JsonHsnRows ==
    {<<Txt(<<"1","0","0","1">>), Txt(<<"R","i","c","e">>), Num(3)>>,
     <<Num(9984), None, Num(2)>>,
     <<None, Txt(<<"R","i","c","e">>), Num(1)>>,
     <<Txt(<<" "," ">>), None, Num(1)>>}

JsonHsnSheets ==
    {<<<<Txt(Hdr.HSN), Txt(<<"D","e","s","c","r","i","p","t","i","o","n">>), Txt(Hdr.Total_Taxable_Value)>>>> \o rows :
        rows \in SeqsUpTo(JsonHsnRows, MaxHsn)}

InitJsonHsn ==
    /\ csv_files = <<>>
    /\ file_idx = 1
    /\ gen_pc = "saved"
    /\ sheets_processed = 0
    /\ gen_wb \in {[hsn |-> ws] : ws \in JsonHsnSheets}
    /\ gen_wb0 = gen_wb
    /\ gstr1_json = <<>>
    /\ RunIdle
    /\ StoreIdle

SpecJsonHsn == InitJsonHsn /\ [][GenerateJson]_vars

\* the rows of the hsn sheet that hold a code
rows_with_code ==
    {r \in 2..Len(gen_wb["hsn"]) :
        /\ cell(gen_wb["hsn"], r, 1) # None
        /\ str_strip(str(cell(gen_wb["hsn"], r, 1))) # <<>>}

\* C28: once the workbook is projected, the hsn entries are those of the rows
\* with a code in sheet order, and entry k has the number k.
C28_NumberedWithoutGaps ==
    gen_pc = "projected" =>
        /\ Len(gstr1_json.hsn) = Cardinality(rows_with_code)
        /\ \A k \in 1..Len(gstr1_json.hsn) :
              /\ gstr1_json.hsn[k].num = k
              /\ \E r \in rows_with_code :
                    /\ Cardinality({q \in rows_with_code : q < r}) = k - 1
                    /\ gstr1_json.hsn[k].hsn_sc = str_strip(str(cell(gen_wb["hsn"], r, 1)))

(***************************************************************************)
(* run_verification over workbooks that also hold b2cl and cdnr sheets     *)
(***************************************************************************)
\* b2b rows of two places with a valid identifier, and one with an identifier
\* that is too short
BookRows ==
    {DashRow(Txt(Sample.PosKa29), 200), DashRow(Txt(Sample.PosMh27), 40),
     [DashRow(Txt(Sample.PosKa29), 100) EXCEPT !.gstin = Txt(Sample.GstinShort)]}

BookB2BSheets ==
    {sheet_of(<<"gstin", "pos", "rate", "tax">>, B2BHeader, recs) :
        recs \in SeqsUpTo(BookRows, MaxB2B)}

\* a sheet of another category: place, rate and taxable value, no tax columns
OtherSheets ==
    {<<>>,
     sheet_of(<<"pos", "rate", "tax">>, B2BHeader,
              <<DashRow(Txt(Sample.PosKa29), 60), DashRow(Txt(Sample.PosMh27), 80)>>)}

InitBook ==
    /\ \E b2b \in BookB2BSheets, b2cs \in B2csSheets, hsn \in {<<>>, HsnFixed},
          b2cl \in OtherSheets, cdnr \in OtherSheets :
          LoadedBook([n \in SheetNames \cup {"b2cl", "cdnr"} |->
                         CASE n = "b2b" -> b2b [] n = "b2cs" -> b2cs [] n = "hsn" -> hsn
                           [] n = "b2cl" -> b2cl [] OTHER -> cdnr])
    /\ StoreIdle
    /\ GenIdle

SpecBook == InitBook /\ [][Next]_vars

\* C29: at every point of a run, the workbook has the sheets it was loaded
\* with, and every sheet other than b2b, b2cs and hsn has the rows and cell
\* values it was loaded with.
C29_OtherSheetsUntouched ==
    /\ DOMAIN wb = DOMAIN wb0
    /\ \A n \in DOMAIN wb0 \ {"b2b", "b2cs", "hsn"} : wb[n] = wb0[n]

\* the run is over: a row left the b2b sheet for the b2cs sheet, Step B
\* changed the hsn sheet, and the b2cl and cdnr sheets hold their two rows
C29_Witness ==
    /\ pc = "summarised"
    /\ Len(wb["b2b"]) < Len(wb0["b2b"])
    /\ wb["b2cs"] # wb0["b2cs"]
    /\ wb["hsn"] # wb0["hsn"]
    /\ Len(wb0["b2cl"]) = 3 /\ wb["b2cl"] = wb0["b2cl"]
    /\ Len(wb0["cdnr"]) = 3 /\ wb["cdnr"] = wb0["cdnr"]


\* the sheets summed under a category
sheets_of(p) ==
    CASE p = "b2b" -> {"b2b"}
      [] p = "b2c" -> {"b2cs", "b2cl"}
      [] p = "cdnr" -> {"cdnr", "cdnur"}
      [] OTHER -> {"hsn"}

\* the sheets of a category that the run sums
summed_of(p) == {n \in sheets_of(p) \cap sheetnames : max_row(wb[n]) > 1}

\* taxable value x rate / 100 over the rows from..Len(ws), in two-hundredths
RECURSIVE implicit_tax_of(_, _)
implicit_tax_of(ws, from) ==
    IF from > Len(ws) THEN 0
    ELSE 2 * clean_val(cell(ws, from, sum_columns(ws).tax))
           * clean_val(cell(ws, from, sum_columns(ws).rate))
         + implicit_tax_of(ws, from + 1)

RECURSIVE implicit_tax_over(_)
implicit_tax_over(names) ==
    IF names = {} THEN 0
    ELSE LET n == CHOOSE m \in names : TRUE
         IN  implicit_tax_of(wb[n], 2) + implicit_tax_over(names \ {n})

\* C30: when the dashboard is built, a category all of whose summed sheets
\* lack the CGST and IGST columns has tax components that add up to the
\* implicit gross tax of the rows of those sheets, and its central and state
\* components are equal.
C30_ImplicitTaxConserved ==
    pc = "summarised" =>
        \A p \in DOMAIN cats_zero :
            (\A n \in summed_of(p) : implicit_sheet(n)) =>
                /\ dash_data[p].igst + dash_data[p].cgst + dash_data[p].sgst
                     = implicit_tax_over(summed_of(p))
                /\ dash_data[p].cgst = dash_data[p].sgst

\* the consumer category summed from a b2cs and a b2cl sheet without tax
\* columns, with tax of the home state and of another place
C30_Witness ==
    /\ pc = "summarised"
    /\ summed_of("b2c") = {"b2cs", "b2cl"}
    /\ implicit_sheet("b2cs") /\ implicit_sheet("b2cl")
    /\ dash_data["b2c"].cgst > 0
    /\ dash_data["b2c"].igst > 0
    /\ dash_data["b2c"].total_tax = implicit_tax_over({"b2cs", "b2cl"})

====
